---- MODULE Spec2Model ----
(***************************************************************************)
(* Verification model of PDFRest (snapps91/PDFRest): the CDP client's      *)
(* Call exchange, the HTTP handlers, the query-option parser and the       *)
(* DevTools endpoint resolver with its TTL cache.                          *)
(*                                                                         *)
(* Each subsystem has its own specification over the shared variables;     *)
(* the variables of the other subsystems stay at their initial values.     *)
(*   Spec          cdpClient.Call, concurrent callers on one connection    *)
(*   SpecOptions   parsePDFOptions applied to bounded queries              *)
(*   SpecHTTP      pdfHandler with its resolver and renderer collaborators *)
(***************************************************************************)
EXTENDS Integers, Sequences, FiniteSets, TLC

(***************************************************************************)
(* Bounds of the model.                                                    *)
(***************************************************************************)
\* Calls issued on one connection before the model stops starting new ones.
MaxCalls == 3
\* Keys present in a query handed to parsePDFOptions.
MaxPresent == 2
\* cfg.MaxBodyBytes of the modelled server; request bodies run to one more.
MaxBodyBytes == 2
\* Advances of the clock the resolver reads before the model stops it.
MaxTicks == 3
\* Renders run one after the other on the rendering session model.
MaxRenders == 2

(***************************************************************************)
(* CDP client: state.                                                      *)
(***************************************************************************)
VARIABLES
    nextID,     \* cdpClient.nextID
    mu,         \* cdpClient.mu: the goroutine holding it, or NoHolder
    pc,         \* per goroutine: its position in Call
    callId,     \* per goroutine: the local id of the Call it is in
    ctxDone,    \* per goroutine: ctx.Err() != nil for the Call's context
    outArg,     \* per goroutine: the Call was given result != nil
    out,        \* per goroutine: the value behind the result pointer
    sent,       \* ids of the requests written to the connection, in order
    responded,  \* ids whose matching response a Call has consumed
    returned,   \* ids whose Call has returned
    lastEvent,  \* the last message handled or return made by a Call
    desync      \* a timed-out read dropped the part of a frame it had read

cdpVars == <<nextID, mu, pc, callId, ctxDone, outArg, out, sent, responded,
             returned, lastEvent, desync>>

(***************************************************************************)
(* Option parser and HTTP handler: state.                                  *)
(***************************************************************************)
VARIABLES
    query,        \* the url.Values given to parsePDFOptions
    parsed,       \* what parsePDFOptions returned for it, once called
    request,      \* the HTTP request being served
    response,     \* the response written for it, once served
    invoked,      \* the stages the handler ran for it, in order
    resolved,     \* what resolver.wsURL answered, if it was called
    rendered,     \* what the renderer answered, if it was called
    rendererArgs, \* the arguments the renderer was called with
    logged        \* the lines the handler logged

optVars == <<query, parsed>>
httpVars == <<request, response, invoked, resolved, rendered, rendererArgs,
              logged>>

(***************************************************************************)
(* Chrome resolver: state.                                                 *)
(***************************************************************************)
VARIABLES
    ws,         \* chromeResolver.ws: the CHROME_WS override, "" when unset
    cachedWS,   \* chromeResolver.cachedWS
    cachedAt,   \* chromeResolver.cachedAt, in seconds
    now,        \* the clock read by time.Now and time.Since, in seconds
    ticks,      \* advances of the clock so far
    rpc,        \* per goroutine: the resolver method it is discovering for
    rmiss,      \* per goroutine: the cache entry its wsURL call found unusable
    rret,       \* the last return of wsURL or checkChrome
    rgets       \* per goroutine: GET /json/version requests its call issued

resVars == <<ws, cachedWS, cachedAt, now, ticks, rpc, rmiss, rret, rgets>>

(***************************************************************************)
(* Health handler: state.                                                  *)
(***************************************************************************)
VARIABLES
    hrequest,   \* the request to /healthz and the resolver it is served with
    hresponse,  \* the response written for it, once served
    hinvoked    \* the resolver methods the handler called for it

healthVars == <<hrequest, hresponse, hinvoked>>

(***************************************************************************)
(* Rendering session: state.                                               *)
(***************************************************************************)
VARIABLES
    spc,        \* position of the render: idle, creating, attaching, ...
    swsURL,     \* the websocket URL the render was given
    screated,   \* created.TargetID inside openTargetSession
    stargetID,  \* the target id openTargetSession returned to the render
    ssessionID, \* the session id openTargetSession returned to the render
    sctxDone,   \* the request context of the render is cancelled or expired
    stargets,   \* the targets Chromium created for the renders so far
    sclosed,    \* the ids Target.closeTarget was called with, in order
    srenders,   \* renders started so far
    serr,       \* the error the render returned, "" for none
    sattached   \* the targetId parameters of the Target.attachToTarget calls

sessVars == <<spc, swsURL, screated, stargetID, ssessionID, sctxDone,
              stargets, sclosed, srenders, serr, sattached>>

(***************************************************************************)
(* Suspension points of Call and waitForBody: state.                       *)
(***************************************************************************)
VARIABLES
    kop,        \* the operation running: "none", "Call" or "waitForBody"
    kpc,        \* where it is: idle, write, writing, read, reading, select
    kstep,      \* inside waitForBody: which Call of hasBody is running
    kdeadline,  \* the operation's context carries a deadline
    kcancelled, \* the context was cancelled
    kexpired,   \* the context's deadline has passed
    kwdl,       \* the connection's write deadline: none, pending or passed
    krdl,       \* the connection's read deadline: none, ctx or poll
    kret,       \* what the last operation returned
    kclosed     \* Close was called on the client

cancelVars == <<kop, kpc, kstep, kdeadline, kcancelled, kexpired, kwdl, krdl,
                kret, kclosed>>

(***************************************************************************)
(* Frames written by the WebSocket transport: state.                       *)
(***************************************************************************)
VARIABLES
    fpayload,   \* the payload handed to the writer
    fkey,       \* the 4 bytes rand.Read puts in maskKey
    fop,        \* which writer ran: "none", "text" or "control"
    fframe,     \* the bytes given to conn.Write
    ferr        \* the error the writer returned

frameVars == <<fpayload, fkey, fop, fframe, ferr>>

(***************************************************************************)
(* Messages read from the WebSocket transport: state.                      *)
(***************************************************************************)
VARIABLES
    mpc,         \* "idle", or "reading" while a readMessage call runs
    mmessage,    \* readMessage's local message
    mcollecting, \* readMessage's local collecting
    mret,        \* what the last readMessage call returned
    mlast,       \* the frame the server sent last
    mbefore,     \* message and collecting before that frame was read
    mwrote,      \* the control frame written in answer to it, if any
    mexpect,     \* payloads of the data frames sent since the call began
    mframes      \* how many frames were read in all

readVars == <<mpc, mmessage, mcollecting, mret, mlast, mbefore, mwrote,
              mexpect, mframes>>

(***************************************************************************)
(* The WebSocket handshake: state.                                         *)
(***************************************************************************)
VARIABLES
    din,        \* the URL, the key drawn and what the network and peer do
    dtcp,       \* the TCP connection: "none", "open" or "closed"
    dret        \* what dialWebSocket returned

dialVars == <<din, dtcp, dret>>

(***************************************************************************)
(* Print parameters: state.                                                *)
(***************************************************************************)
VARIABLES
    poptions,   \* the pdfOptions handed to renderPDF
    ptags,      \* the parameter fields the encoder omits when they are zero
    pparams,    \* the PrintToPDFParams value built, <<>> before
    psent       \* the members of the params object sent to Chromium

printVars == <<poptions, ptags, pparams, psent>>

(***************************************************************************)
(* The render pipeline: state.                                             *)
(***************************************************************************)
VARIABLES
    qpc,        \* the step renderPDF is at
    qwait,      \* the settle delay is positive
    qctxDone,   \* the render's context is cancelled or past its deadline
    qsent,      \* the CDP methods sent so far, in order
    qbody,      \* a body poll has found the body
    qpolls,     \* how many body polls were made
    qresult     \* "none" while rendering, then "ok" or "failed"

pipeVars == <<qpc, qwait, qctxDone, qsent, qbody, qpolls, qresult>>

(***************************************************************************)
(* Reading from the byte stream with retries: state.                       *)
(***************************************************************************)
VARIABLES
    bpc,         \* cdpClient.read: idle, reading (inside readMessage), failed
    bflight,     \* bytes the server sent that have not arrived yet
    bstream,     \* bytes that arrived and that c.br has not handed out yet
    bmessage,    \* readMessage's local message
    bcollecting, \* readMessage's local collecting
    bsent,       \* the messages the server sent, in order
    bgot,        \* the messages read returned, in order
    berr         \* the error read returned, "" for none

streamVars == <<bpc, bflight, bstream, bmessage, bcollecting, bsent, bgot, berr>>

vars ==
    <<cdpVars, optVars, httpVars, resVars, healthVars, sessVars,
      cancelVars, frameVars, readVars, dialVars, printVars, pipeVars,
      streamVars>>

\* What the actions of one subsystem leave alone.
notCdpVars ==
    <<optVars, httpVars, resVars, healthVars, sessVars, cancelVars,
      frameVars, readVars, dialVars, printVars, pipeVars, streamVars>>
notOptVars ==
    <<cdpVars, httpVars, resVars, healthVars, sessVars, cancelVars,
      frameVars, readVars, dialVars, printVars, pipeVars, streamVars>>
notHttpVars ==
    <<cdpVars, optVars, resVars, healthVars, sessVars, cancelVars,
      frameVars, readVars, dialVars, printVars, pipeVars, streamVars>>
notResVars ==
    <<cdpVars, optVars, httpVars, healthVars, sessVars, cancelVars,
      frameVars, readVars, dialVars, printVars, pipeVars, streamVars>>
notHealthVars ==
    <<cdpVars, optVars, httpVars, resVars, sessVars, cancelVars, frameVars,
      readVars, dialVars, printVars, pipeVars, streamVars>>
notSessVars ==
    <<cdpVars, optVars, httpVars, resVars, healthVars, cancelVars,
      frameVars, readVars, dialVars, printVars, pipeVars, streamVars>>
notCancelVars ==
    <<cdpVars, optVars, httpVars, resVars, healthVars, sessVars, frameVars,
      readVars, dialVars, printVars, pipeVars, streamVars>>
notFrameVars ==
    <<cdpVars, optVars, httpVars, resVars, healthVars, sessVars,
      cancelVars, readVars, dialVars, printVars, pipeVars, streamVars>>
notReadVars ==
    <<cdpVars, optVars, httpVars, resVars, healthVars, sessVars,
      cancelVars, frameVars, dialVars, printVars, pipeVars, streamVars>>
notDialVars ==
    <<cdpVars, optVars, httpVars, resVars, healthVars, sessVars,
      cancelVars, frameVars, readVars, printVars, pipeVars, streamVars>>
notPrintVars ==
    <<cdpVars, optVars, httpVars, resVars, healthVars, sessVars,
      cancelVars, frameVars, readVars, dialVars, pipeVars, streamVars>>
notPipeVars ==
    <<cdpVars, optVars, httpVars, resVars, healthVars, sessVars,
      cancelVars, frameVars, readVars, dialVars, printVars, streamVars>>
notStreamVars ==
    <<cdpVars, optVars, httpVars, resVars, healthVars, sessVars,
      cancelVars, frameVars, readVars, dialVars, printVars, pipeVars>>

\* Goroutines that may call Call on the same client.
Callers == {"g1", "g2"}
NoHolder == "none"

(***************************************************************************)
(* CDP messages as json.Unmarshal sees them.                               *)
(***************************************************************************)
\* cdpError values a response may carry.
CdpErrors ==
    { [code |-> -32000, message |-> "Target closed"],
      [code |-> -32601, message |-> "method not found"] }

\* resp.Result as raw JSON: absent, two values that fit the result type,
\* and one whose field has the wrong JSON type.
RawEmpty == ""
RawResults == { RawEmpty, "{\"v\":1}", "{\"v\":2}", "{\"v\":\"x\"}" }

\* A parsed cdpResponse.  error is <<>> for a nil *cdpError; id is 0 for
\* an event (no id member).  Ids of any call of the connection may arrive.
Messages ==
    [ id : 0..MaxCalls,
      error : {<<>>} \cup { <<e>> : e \in CdpErrors },
      result : RawResults ]

\* json.Unmarshal(resp.Result, result) into a struct with one int field v:
\* a value of the wrong JSON type is an UnmarshalTypeError and leaves the
\* field as it was.
Unmarshal(raw, cur) ==
    CASE raw = "{\"v\":1}" -> [err |-> FALSE, val |-> 1]
      [] raw = "{\"v\":2}" -> [err |-> FALSE, val |-> 2]
      [] OTHER             -> [err |-> TRUE, val |-> cur]

\* Texts readMessage can deliver that are not JSON objects: the empty
\* message, a JSON array and the JSON null.
NoText == "(none)"
NonObjectTexts == { "", "[]", "null" }

\* The error of json.Unmarshal(msg, &resp) on such a text, "" for nil: a
\* syntax error, a type error for a value that is not an object, and no
\* error for null, which leaves resp as it is.
UnmarshalMessage_Lenient(text) == ""
UnmarshalMessage(text) ==
    CASE text = ""     -> "unexpected end of JSON input"
      [] text = "null" -> ""
      [] text = "[]"   ->
            "json: cannot unmarshal array into Go value of type main.cdpResponse"
      [] OTHER         -> "invalid character looking for beginning of value"

\* What Call returns: nil, or an error of some kind.  code and message are
\* those formatted into the "cdp ... error %d: %s" text; 0 and "" elsewhere.
Ret(kind) == [kind |-> kind, code |-> 0, message |-> ""]
RetNil == Ret("nil")
RetCdp(e) == [kind |-> "cdp", code |-> e.code, message |-> e.message]

\* The dynamic Go types an error of each kind can have.  fmt.Errorf without
\* %w and errors.New both give *errors.errorString: that is the type of the
\* CDP error, of readMessage's protocol errors and io.EOF, and of
\* context.Canceled.
ErrorTypes(kind) ==
    CASE kind = "cdp"       -> {"*errors.errorString"}
      [] kind = "marshal"   -> {"*json.UnsupportedTypeError",
                                "*json.UnsupportedValueError",
                                "*json.MarshalerError"}
      [] kind = "context"   -> {"*errors.errorString",
                                "context.deadlineExceededError"}
      [] kind = "write"     -> {"*net.OpError"}
      [] kind = "timeout"   -> {"*net.OpError"}
      [] kind = "read"      -> {"*net.OpError", "*errors.errorString"}
      [] kind = "parse"     -> {"*json.SyntaxError", "*json.UnmarshalTypeError"}
      [] kind = "unmarshal" -> {"*json.SyntaxError", "*json.UnmarshalTypeError"}
      [] OTHER              -> {}

(***************************************************************************)
(* CDP client: Call.                                                       *)
(***************************************************************************)
NoEvent ==
    [type |-> "none", by |-> NoHolder, id |-> 0, msgId |-> 0, msg |-> <<>>,
     ret |-> RetNil, outBefore |-> 0, outArg |-> FALSE, afterDiscard |-> FALSE,
     text |-> NoText]

InitCDP ==
    /\ nextID = 0
    /\ mu = NoHolder
    /\ pc = [p \in Callers |-> "idle"]
    /\ callId = [p \in Callers |-> 0]
    /\ ctxDone = [p \in Callers |-> FALSE]
    /\ outArg = [p \in Callers |-> FALSE]
    /\ out = [p \in Callers |-> 0]
    /\ sent = <<>>
    /\ responded = {}
    /\ returned = {}
    /\ lastEvent = NoEvent
    /\ desync = FALSE

\* c.mu.Lock() returns only when no goroutine holds the mutex.
MutexFree_NoLock == TRUE
MutexFree == mu = NoHolder

\* id := atomic.AddInt64(&c.nextID, 1)
NewID_NoIncrement == nextID
NewID == nextID + 1

\* The two "continue" branches of the read loop.
Discarded_ZeroOnly(m, id) == m.id = 0
Discarded(m, id) == m.id = 0 \/ m.id # id

\* The tail of the loop, for the response that matched: the value Call
\* returns and the value left behind the result pointer.
HandleResponse_ResultFirst(m, hasOut, cur) ==
    LET u == IF hasOut /\ m.result # RawEmpty
             THEN Unmarshal(m.result, cur) ELSE [err |-> FALSE, val |-> cur]
    IN  IF u.err THEN [ret |-> Ret("unmarshal"), out |-> u.val]
        ELSE IF m.error # <<>> THEN [ret |-> RetCdp(m.error[1]), out |-> u.val]
        ELSE [ret |-> RetNil, out |-> u.val]
HandleResponse(m, hasOut, cur) ==
    IF m.error # <<>>
    THEN [ret |-> RetCdp(m.error[1]), out |-> cur]
    ELSE IF hasOut /\ m.result # RawEmpty
         THEN LET u == Unmarshal(m.result, cur)
              IN  [ret |-> IF u.err THEN Ret("unmarshal") ELSE RetNil,
                   out |-> u.val]
         ELSE [ret |-> RetNil, out |-> cur]

\* Call returns r: the deferred c.mu.Unlock() runs, the locals of the call
\* are gone and the caller goes on.
\* m is <<>>, or <<the response that decided the return>>.
ReturnOn(p, r, m, o, text) ==
    /\ pc' = [pc EXCEPT ![p] = "idle"]
    /\ mu' = IF mu = p THEN NoHolder ELSE mu
    /\ out' = [out EXCEPT ![p] = o]
    /\ callId' = [callId EXCEPT ![p] = 0]
    /\ ctxDone' = [ctxDone EXCEPT ![p] = FALSE]
    /\ outArg' = [outArg EXCEPT ![p] = FALSE]
    /\ returned' = returned \cup {callId[p]}
    /\ lastEvent' = [type |-> "return", by |-> p, id |-> callId[p],
                     msgId |-> IF m = <<>> THEN 0 ELSE m[1].id, msg |-> m,
                     ret |-> r, outBefore |-> out[p], outArg |-> outArg[p],
                     afterDiscard |-> /\ lastEvent.type = "discard"
                                      /\ lastEvent.by = p
                                      /\ lastEvent.id = callId[p],
                     text |-> text]
\* A return that is not made on a text json.Unmarshal was given.
Return(p, r, m, o) == ReturnOn(p, r, m, o, NoText)

\* Call is entered with some context and result pointer and waits at
\* c.mu.Lock().
CallInvoke(p) ==
    /\ pc[p] = "idle"
    /\ nextID < MaxCalls
    /\ \E d \in BOOLEAN : ctxDone' = [ctxDone EXCEPT ![p] = d]
    /\ \E o \in BOOLEAN : outArg' = [outArg EXCEPT ![p] = o]
    /\ pc' = [pc EXCEPT ![p] = "lock"]
    /\ UNCHANGED <<nextID, mu, callId, out, sent, responded, returned,
                   lastEvent>>
    /\ UNCHANGED desync
    /\ UNCHANGED notCdpVars

\* The mutex is taken and the id drawn.
CallLock(p) ==
    /\ pc[p] = "lock"
    /\ nextID < MaxCalls
    /\ MutexFree
    /\ mu' = p
    /\ nextID' = NewID
    /\ callId' = [callId EXCEPT ![p] = NewID]
    /\ pc' = [pc EXCEPT ![p] = "marshal"]
    /\ lastEvent' = NoEvent
    /\ UNCHANGED <<ctxDone, outArg, out, sent, responded, returned>>
    /\ UNCHANGED desync
    /\ UNCHANGED notCdpVars

\* json.Marshal(req) fails for params that cannot be encoded.
CallMarshalFail(p) ==
    /\ pc[p] = "marshal"
    /\ Return(p, Ret("marshal"), <<>>, out[p])
    /\ UNCHANGED <<nextID, sent, responded>>
    /\ UNCHANGED desync
    /\ UNCHANGED notCdpVars

\* c.write: the context is checked, then the frame is written.
CallWrite(p) ==
    /\ pc[p] = "marshal"
    /\ \/ /\ ctxDone[p]
          /\ Return(p, Ret("context"), <<>>, out[p])
          /\ UNCHANGED sent
       \/ /\ ~ctxDone[p]
          /\ Return(p, Ret("write"), <<>>, out[p])
          /\ UNCHANGED sent
       \/ /\ ~ctxDone[p]
          /\ sent' = Append(sent, callId[p])
          /\ pc' = [pc EXCEPT ![p] = "read"]
          /\ UNCHANGED <<mu, out, callId, ctxDone, outArg, returned,
                         lastEvent>>
    /\ UNCHANGED <<nextID, responded>>
    /\ UNCHANGED desync
    /\ UNCHANGED notCdpVars

\* The top of c.read's loop: ctx.Err() is checked before the read deadline
\* is set and readMessage is entered.
CallReadEnter(p) ==
    /\ pc[p] = "read"
    /\ \/ /\ ctxDone[p]
          /\ Return(p, Ret("context"), <<>>, out[p])
       \/ /\ ~ctxDone[p]
          /\ pc' = [pc EXCEPT ![p] = "blocked"]
          /\ UNCHANGED <<mu, out, callId, ctxDone, outArg, returned,
                         lastEvent>>
    /\ UNCHANGED <<nextID, sent, responded>>
    /\ UNCHANGED desync
    /\ UNCHANGED notCdpVars

\* io.ReadFull in readFrame returns the bytes read so far in buffers that
\* readFrame drops with the error, and readMessage drops the fragments it
\* had collected: a timeout between two frames loses nothing, a timeout
\* part-way through a frame or a message leaves the reader off the frame
\* boundary.
TimedOutRead == \E partWay \in BOOLEAN : desync' = (desync \/ partWay)

\* The next bytes readFrame reads are the start of a frame.
AtFrameBoundary == ~desync

\* readMessage delivers a message that parses as a cdpResponse.
CallReadMessage(p) ==
    /\ pc[p] = "blocked"
    /\ AtFrameBoundary
    /\ \E m \in Messages :
          IF Discarded(m, callId[p])
          THEN /\ pc' = [pc EXCEPT ![p] = "read"]
               /\ lastEvent' = [type |-> "discard", by |-> p, id |-> callId[p],
                                msgId |-> m.id, msg |-> <<>>, ret |-> RetNil,
                                outBefore |-> out[p], outArg |-> outArg[p],
                                afterDiscard |-> FALSE, text |-> NoText]
               /\ UNCHANGED <<mu, out, callId, ctxDone, outArg, returned,
                              responded>>
          ELSE LET h == HandleResponse(m, outArg[p], out[p])
               IN  /\ Return(p, h.ret, <<m>>, h.out)
                   /\ responded' = responded \cup {m.id}
    /\ UNCHANGED <<nextID, sent>>
    /\ UNCHANGED desync
    /\ UNCHANGED notCdpVars

\* readMessage delivers a text that is not a JSON object: json.Unmarshal
\* rejects it and Call returns the error, or accepts it without touching
\* resp, whose ID is then 0 as for an event.
CallReadGarbage(p) ==
    /\ pc[p] = "blocked"
    /\ \E text \in NonObjectTexts :
         IF UnmarshalMessage(text) # ""
         THEN ReturnOn(p, Ret("parse"), <<>>, out[p], text)
         ELSE /\ pc' = [pc EXCEPT ![p] = "read"]
              /\ lastEvent' = [type |-> "discard", by |-> p,
                               id |-> callId[p], msgId |-> 0, msg |-> <<>>,
                               ret |-> RetNil, outBefore |-> out[p],
                               outArg |-> outArg[p], afterDiscard |-> FALSE,
                               text |-> text]
              /\ UNCHANGED <<mu, out, callId, ctxDone, outArg, returned>>
    /\ UNCHANGED <<nextID, sent, responded>>
    /\ UNCHANGED desync
    /\ UNCHANGED notCdpVars

\* readMessage fails: a timeout is retried while the context is live and
\* surfaced once it is done; any other error is surfaced.
CallReadError(p) ==
    /\ pc[p] = "blocked"
    /\ \/ /\ ~ctxDone[p]
          /\ pc' = [pc EXCEPT ![p] = "read"]
          /\ TimedOutRead
          /\ UNCHANGED <<mu, out, callId, ctxDone, outArg, returned,
                         lastEvent>>
       \/ /\ ctxDone[p]
          /\ TimedOutRead
          /\ Return(p, Ret("timeout"), <<>>, out[p])
       \/ /\ Return(p, Ret("read"), <<>>, out[p])
          /\ UNCHANGED desync
    /\ UNCHANGED <<nextID, sent, responded>>
    /\ UNCHANGED notCdpVars

\* The Call's context is cancelled or its deadline passes.
CtxCancel(p) ==
    /\ pc[p] \in {"lock", "marshal", "read", "blocked"}
    /\ ~ctxDone[p]
    /\ ctxDone' = [ctxDone EXCEPT ![p] = TRUE]
    /\ UNCHANGED <<nextID, mu, pc, callId, outArg, out, sent, responded,
                   returned, lastEvent>>
    /\ UNCHANGED desync
    /\ UNCHANGED notCdpVars

(***************************************************************************)
(* Query options: parsePDFOptions.                                         *)
(***************************************************************************)
\* The keys parsePDFOptions converts, in the order it reads them, and the
\* pdfOptions field each one sets.
ParsedKeys ==
    << "landscape", "scale", "paper_width", "paper_height", "margin_top",
       "margin_bottom", "margin_left", "margin_right", "print_background" >>
BoolKeys == { "landscape", "print_background" }
QueryKeys == { ParsedKeys[i] : i \in 1..Len(ParsedKeys) } \cup { "page_ranges" }
FieldOf(key) ==
    CASE key = "landscape"        -> "Landscape"
      [] key = "scale"            -> "Scale"
      [] key = "paper_width"      -> "PaperWidth"
      [] key = "paper_height"     -> "PaperHeight"
      [] key = "margin_top"       -> "MarginTop"
      [] key = "margin_bottom"    -> "MarginBottom"
      [] key = "margin_left"      -> "MarginLeft"
      [] key = "margin_right"     -> "MarginRight"
      [] key = "print_background" -> "PrintBackground"

\* pdfOptions{}: a nil pointer is <<>>, a set one <<value>>.
EmptyOptions ==
    [ Landscape |-> <<>>, Scale |-> <<>>, PaperWidth |-> <<>>,
      PaperHeight |-> <<>>, MarginTop |-> <<>>, MarginBottom |-> <<>>,
      MarginLeft |-> <<>>, MarginRight |-> <<>>, PrintBackground |-> <<>>,
      PageRanges |-> "" ]

\* strconv.ParseBool.
ParseBool(str) ==
    CASE str \in {"1", "t", "T", "TRUE", "true", "True"}    -> [err |-> FALSE, val |-> TRUE]
      [] str \in {"0", "f", "F", "FALSE", "false", "False"} -> [err |-> FALSE, val |-> FALSE]
      [] OTHER -> [err |-> TRUE, val |-> FALSE]

\* strconv.ParseFloat(str, 64) on the literals the model uses; the float is
\* kept in hundredths.  Any other text, a unit suffix included, is a
\* syntax error.
ParseFloat(str) ==
    CASE str = "0.9"  -> [err |-> FALSE, val |-> 90]
      [] str = ".9"   -> [err |-> FALSE, val |-> 90]
      [] str = "8.27" -> [err |-> FALSE, val |-> 827]
      [] str = "1"    -> [err |-> FALSE, val |-> 100]
      [] OTHER -> [err |-> TRUE, val |-> 0]

\* getQueryValue: the first value of the key, "" when there is none.
getQueryValue(values, key) ==
    IF key \in DOMAIN values /\ Len(values[key]) > 0 THEN values[key][1] ELSE ""

\* parsePDFOptions from the i-th converted key on.  On a failed conversion
\* the function returns the options as filled so far, beside the error.
RECURSIVE ParseFrom(_, _, _)
ParseFrom(values, i, options) ==
    IF i > Len(ParsedKeys)
    THEN [ options |-> [options EXCEPT !.PageRanges = getQueryValue(values, "page_ranges")],
           err |-> "" ]
    ELSE LET key == ParsedKeys[i]
             value == getQueryValue(values, key)
         IN  IF value = ""
             THEN ParseFrom(values, i + 1, options)
             ELSE LET r == IF key \in BoolKeys THEN ParseBool(value) ELSE ParseFloat(value)
                  IN  IF r.err
                      THEN [ options |-> options, err |-> "invalid " \o key ]
                      ELSE ParseFrom(values, i + 1,
                                     [options EXCEPT ![FieldOf(key)] = <<r.val>>])

parsePDFOptions(values) == ParseFrom(values, 1, EmptyOptions)

\* The value lists a key may carry in a modelled query: one value (empty,
\* convertible or not), or two of which the first is the one read.
ValueLists(key) ==
    IF key \in BoolKeys
    THEN { <<"">>, <<"true">>, <<"0">>, <<"nope">>, <<"true", "nope">> }
    ELSE IF key = "page_ranges"
    THEN { <<"">>, <<"1-2,4">> }
    ELSE { <<"">>, <<"0.9">>, <<".9">>, <<"8.27">>, <<"abc">>, <<"210mm">>,
           <<"1", "abc">> }

\* url.Values with at most MaxPresent keys.
QueryWith(keys) ==
    { q \in [keys -> UNION { ValueLists(k) : k \in keys }] :
        \A k \in keys : q[k] \in ValueLists(k) }
Queries ==
    UNION { QueryWith(keys) :
            keys \in { K \in SUBSET QueryKeys : Cardinality(K) <= MaxPresent } }

\* parsed before parsePDFOptions has been called.
NotParsed == [called |-> FALSE, options |-> EmptyOptions, err |-> ""]

InitOptions ==
    /\ query \in Queries
    /\ parsed = NotParsed

\* parsePDFOptions is called on the query.
ParseQuery ==
    /\ ~parsed.called
    /\ LET r == parsePDFOptions(query)
       IN  parsed' = [called |-> TRUE, options |-> r.options, err |-> r.err]
    /\ UNCHANGED query
    /\ UNCHANGED notOptVars

(***************************************************************************)
(* HTTP facade: pdfHandler.                                                *)
(***************************************************************************)
pdfFilename == "document.pdf"

\* n bytes of request body.
RECURSIVE Fill(_, _)
Fill(c, n) == IF n = 0 THEN "" ELSE c \o Fill(c, n - 1)

\* What reading the connection yields after the body's bytes: the end of
\* the body, or a read error.
ReadEnds == { "EOF", "ErrBodyReadAfterClose", "unexpected EOF" }

\* The queries of the modelled requests.
RequestQueries ==
    { << >>,
      [landscape |-> <<"true">>],
      [scale |-> <<"oops">>],
      [landscape |-> <<"true">>, scale |-> <<"0.9">>, page_ranges |-> <<"1-2,4">>],
      [print_background |-> <<"x">>, paper_width |-> <<"8.27">>] }

Requests ==
    [ method : {"POST", "GET", "PUT"},
      body : { Fill(c, n) : c \in {"<", "p"}, n \in 0..(MaxBodyBytes + 1) },
      readEnd : ReadEnds,
      query : RequestQueries,
      wait : {0, 250} ]

\* readRequestBody over http.MaxBytesReader(w, r.Body, cfg.MaxBodyBytes):
\* io.ReadAll returns the bytes at the end of the body, and the error met
\* otherwise; a body longer than the cap fails at the byte after the cap.
readRequestBody(r) ==
    IF Len(r.body) > MaxBodyBytes
    THEN [body |-> "", err |-> "MaxBytesError"]
    ELSE IF r.readEnd = "EOF"
    THEN [body |-> r.body, err |-> ""]
    ELSE [body |-> "", err |-> r.readEnd]

mapBodyReadErrorToStatus_Always400(err) == 400
mapBodyReadErrorToStatus(err) ==
    CASE err \in {"ErrBodyReadAfterClose", "EOF"} -> 400
      [] err = "MaxBytesError" -> 413
      [] OTHER -> 400

\* The answers of the collaborators: resolver.wsURL and the renderer.
ResolverAnswers ==
    [ url : {"ws://example", "ws://chrome:9222/devtools/browser/b1"}, err : {""} ]
    \cup [ url : {""}, err : {"no chrome", "unexpected chrome status: 502 Bad Gateway"} ]
\* What chromedp.Run leaves renderPDF with: the bytes print.Do decoded from
\* Chromium's answer, which may be none, or the error of the failed action.
RunAnswers ==
    [ pdf : {"", "%PDF-1.7", "%PDF-1.4"}, err : {""} ]
    \cup [ pdf : {""}, err : {"render failed", "cdp Page.printToPDF error -32000: Printing failed"} ]
\* renderPDF: nil and the error when the run failed, else the bytes as
\* they are.
renderPDF(run) ==
    IF run.err # "" THEN [pdf |-> "", err |-> run.err]
    ELSE [pdf |-> run.pdf, err |-> ""]
RendererAnswers == { renderPDF(run) : run \in RunAnswers }
NotCalled == [called |-> FALSE]
Called(answer) == [called |-> TRUE, answer |-> answer]

\* Response headers: a header not set is "".
HeaderNames ==
    { "Content-Type", "Content-Disposition", "X-Content-Type-Options",
      "Cache-Control" }
NoHeaders == [h \in HeaderNames |-> ""]

\* fmt.Sprintf("%q", s) for plain text.
Quote(str) == "\"" \o str \o "\""

\* http.Error(w, msg, code).
HttpError(msg, code) ==
    [ status |-> code,
      header |-> [NoHeaders EXCEPT !["Content-Type"] = "text/plain; charset=utf-8",
                                   !["X-Content-Type-Options"] = "nosniff"],
      body |-> msg \o "\n" ]

\* The texts sent for a failed resolver and a failed renderer.
ResolverErrorText_Leak(err) == err
ResolverErrorText(err) == "chrome unavailable"
RenderErrorText(err) == "render failed"

\* The headers of a successful response.
SuccessHeaders_Attachment ==
    [ NoHeaders EXCEPT
        !["Content-Type"] = "application/pdf",
        !["Content-Disposition"] = "attachment; filename=" \o Quote(pdfFilename),
        !["X-Content-Type-Options"] = "nosniff",
        !["Cache-Control"] = "no-store" ]
SuccessHeaders ==
    [ NoHeaders EXCEPT
        !["Content-Type"] = "application/pdf",
        !["Content-Disposition"] = "inline; filename=" \o Quote(pdfFilename),
        !["X-Content-Type-Options"] = "nosniff",
        !["Cache-Control"] = "no-store" ]

Outcome(resp, stages, res, ren, args, logs) ==
    [ response |-> resp, invoked |-> stages, resolved |-> res, rendered |-> ren,
      rendererArgs |-> args, logged |-> logs ]

\* pdfHandler for request r, with the answers the resolver and the renderer
\* give if they are called.
pdfHandler(r, wsAnswer, pdfAnswer) ==
    IF r.method # "POST"
    THEN Outcome([status |-> 405, header |-> NoHeaders, body |-> ""],
                 <<>>, NotCalled, NotCalled, <<>>, <<>>)
    ELSE
    LET read == readRequestBody(r) IN
    IF read.err # ""
    THEN Outcome(HttpError("invalid request body", mapBodyReadErrorToStatus(read.err)),
                 <<"read">>, NotCalled, NotCalled, <<>>, <<>>)
    ELSE IF Len(read.body) = 0
    THEN Outcome(HttpError("empty html", 400),
                 <<"read">>, NotCalled, NotCalled, <<>>, <<>>)
    ELSE
    LET opts == parsePDFOptions(r.query) IN
    IF opts.err # ""
    THEN Outcome(HttpError(opts.err, 400),
                 <<"read", "parse">>, NotCalled, NotCalled, <<>>, <<>>)
    ELSE IF wsAnswer.err # ""
    THEN Outcome(HttpError(ResolverErrorText(wsAnswer.err), 503),
                 <<"read", "parse", "resolve">>, Called(wsAnswer), NotCalled, <<>>,
                 << "chrome ws error: " \o wsAnswer.err >>)
    ELSE
    LET args == [ wsURL |-> wsAnswer.url, html |-> read.body, wait |-> r.wait,
                  options |-> opts.options ] IN
    IF pdfAnswer.err # ""
    THEN Outcome(HttpError(RenderErrorText(pdfAnswer.err), 500),
                 <<"read", "parse", "resolve", "render">>, Called(wsAnswer),
                 Called(pdfAnswer), <<args>>,
                 << "render error: " \o pdfAnswer.err >>)
    ELSE Outcome([status |-> 200, header |-> SuccessHeaders, body |-> pdfAnswer.pdf],
                 <<"read", "parse", "resolve", "render">>, Called(wsAnswer),
                 Called(pdfAnswer), <<args>>, <<>>)

NoResponse == [status |-> 0, header |-> NoHeaders, body |-> ""]

InitHTTP ==
    /\ request \in Requests
    /\ response = NoResponse
    /\ invoked = <<>>
    /\ resolved = NotCalled
    /\ rendered = NotCalled
    /\ rendererArgs = <<>>
    /\ logged = <<>>

\* The handler serves the request.
ServePDF ==
    /\ response = NoResponse
    /\ \E wsAnswer \in ResolverAnswers, pdfAnswer \in RendererAnswers :
         LET o == pdfHandler(request, wsAnswer, pdfAnswer)
         IN  /\ response' = o.response
             /\ invoked' = o.invoked
             /\ resolved' = o.resolved
             /\ rendered' = o.rendered
             /\ rendererArgs' = o.rendererArgs
             /\ logged' = o.logged
    /\ UNCHANGED request
    /\ UNCHANGED notHttpVars

(***************************************************************************)
(* Chrome resolver: wsURL, checkChrome and the TTL cache.                  *)
(***************************************************************************)
\* Goroutines (request handlers) sharing the one resolver.
Resolvers == {"h1", "h2"}
\* One minute, in seconds.
defaultWSTTL == 60
cacheTTL == defaultWSTTL
\* The clock advances by a second or by a second less than the TTL.
TickSteps == {1, cacheTTL - 1}
Overrides == {"", "ws://override:9222/devtools/browser/o"}
\* What GET <endpoint>/json/version can come back with.
VersionResponses ==
    { [doErr |-> "dial tcp: connection refused", status |-> 0,
       decodes |-> FALSE, url |-> ""],
      [doErr |-> "", status |-> 503, decodes |-> FALSE, url |-> ""],
      [doErr |-> "", status |-> 200, decodes |-> FALSE, url |-> ""],
      [doErr |-> "", status |-> 200, decodes |-> TRUE, url |-> ""],
      [doErr |-> "", status |-> 200, decodes |-> TRUE,
       url |-> "ws://chrome:9222/devtools/browser/a"],
      [doErr |-> "", status |-> 200, decodes |-> TRUE,
       url |-> "ws://chrome:9222/devtools/browser/b"] }
\* What Browser.getVersion over the override socket can return.
CdpProbeErrors == {"", "dial tcp: connection refused"}

\* Discover without the test for an empty webSocketDebuggerUrl.
Discover_AcceptEmptyURL(resp) ==
    IF resp.doErr # "" THEN [url |-> "", err |-> resp.doErr]
    ELSE IF resp.status # 200
    THEN [url |-> "", err |-> "unexpected chrome status: 503 Service Unavailable"]
    ELSE IF ~resp.decodes
    THEN [url |-> "", err |-> "invalid character '<' looking for beginning of value"]
    ELSE [url |-> resp.url, err |-> ""]

\* The discovery both methods perform on the response of /json/version.
Discover(resp) ==
    IF resp.doErr # "" THEN [url |-> "", err |-> resp.doErr]
    ELSE IF resp.status # 200
    THEN [url |-> "", err |-> "unexpected chrome status: 503 Service Unavailable"]
    ELSE IF ~resp.decodes
    THEN [url |-> "", err |-> "invalid character '<' looking for beginning of value"]
    ELSE IF resp.url = ""
    THEN [url |-> "", err |-> "missing websocket debugger url"]
    ELSE [url |-> resp.url, err |-> ""]

HasOverride_Never == FALSE

\* c.ws != "": the explicit override is configured.
HasOverride == ws # ""

Since(t) == now - t

getCachedWS_NeverHit == ""

getCachedWS_ExpiredAfterTTL ==
    IF cachedWS = "" THEN ""
    ELSE IF Since(cachedAt) > cacheTTL THEN ""
    ELSE cachedWS

getCachedWS ==
    IF cachedWS = "" THEN ""
    ELSE IF Since(cachedAt) >= cacheTTL THEN ""
    ELSE cachedWS

setCachedWS_StampOnly(url) == cachedWS' = cachedWS /\ cachedAt' = now

setCachedWS_KeepStamp(url) == cachedWS' = url /\ cachedAt' = cachedAt

setCachedWS(url) == cachedWS' = url /\ cachedAt' = now

NoMiss == [cachedWS |-> "", age |-> 0]
NoReturn == [by |-> "none", op |-> "none", url |-> "", err |-> "",
             via |-> "none", cachedWS |-> "", age |-> 0]
ResolverReturn(p, op, url, err, via) ==
    [by |-> p, op |-> op, url |-> url, err |-> err, via |-> via,
     cachedWS |-> IF via = "cache" THEN cachedWS
                  ELSE IF op = "wsURL" /\ via = "discovery" THEN rmiss[p].cachedWS
                  ELSE "",
     age |-> IF via = "cache" THEN Since(cachedAt)
             ELSE IF op = "wsURL" /\ via = "discovery" THEN rmiss[p].age
             ELSE 0]

InitResolver ==
    /\ ws \in Overrides
    /\ cachedWS = ""
    /\ cachedAt = 0
    /\ now = cacheTTL
    /\ ticks = 0
    /\ rpc = [p \in Resolvers |-> "idle"]
    /\ rmiss = [p \in Resolvers |-> NoMiss]
    /\ rret = NoReturn
    /\ rgets = [p \in Resolvers |-> 0]

\* wsURL up to the point where it returns or starts the discovery request.
WsURL(p) ==
    /\ rpc[p] = "idle"
    /\ IF HasOverride
       THEN /\ rret' = ResolverReturn(p, "wsURL", ws, "", "override")
            /\ rgets' = [rgets EXCEPT ![p] = 0]
            /\ UNCHANGED <<rpc, rmiss>>
       ELSE IF getCachedWS # ""
       THEN /\ rret' = ResolverReturn(p, "wsURL", getCachedWS, "", "cache")
            /\ rgets' = [rgets EXCEPT ![p] = 0]
            /\ UNCHANGED <<rpc, rmiss>>
       ELSE /\ rpc' = [rpc EXCEPT ![p] = "wsURL"]
            /\ rmiss' = [rmiss EXCEPT ![p] =
                            [cachedWS |-> cachedWS,
                             age |-> IF cachedWS = "" THEN 0 ELSE Since(cachedAt)]]
            /\ rgets' = [rgets EXCEPT ![p] = 1]
            /\ UNCHANGED rret
    /\ UNCHANGED <<ws, cachedWS, cachedAt, now, ticks>>
    /\ UNCHANGED notResVars

\* The rest of wsURL: the response of /json/version arrives.
WsURLDiscovered(p) ==
    /\ rpc[p] = "wsURL"
    /\ \E resp \in VersionResponses :
         LET d == Discover(resp) IN
           /\ IF d.err = "" THEN setCachedWS(d.url)
                            ELSE UNCHANGED <<cachedWS, cachedAt>>
           /\ rret' = ResolverReturn(p, "wsURL", d.url, d.err, "discovery")
    /\ rpc' = [rpc EXCEPT ![p] = "idle"]
    /\ rmiss' = [rmiss EXCEPT ![p] = NoMiss]
    /\ UNCHANGED <<ws, now, ticks, rgets>>
    /\ UNCHANGED notResVars

\* checkChrome answering from a fresh cache entry.
CheckChrome_FromCache(p) ==
    /\ rpc[p] = "idle"
    /\ IF getCachedWS # ""
       THEN /\ rret' = ResolverReturn(p, "checkChrome", "", "", "cache")
            /\ rgets' = [rgets EXCEPT ![p] = 0]
            /\ UNCHANGED rpc
       ELSE /\ rpc' = [rpc EXCEPT ![p] = "checkChrome"]
            /\ rgets' = [rgets EXCEPT ![p] = 1]
            /\ UNCHANGED rret
    /\ UNCHANGED <<ws, cachedWS, cachedAt, now, ticks, rmiss>>
    /\ UNCHANGED notResVars

\* checkChrome up to the point where it returns or starts the request.
CheckChrome(p) ==
    /\ rpc[p] = "idle"
    /\ IF HasOverride
       THEN /\ \E e \in CdpProbeErrors :
                 rret' = ResolverReturn(p, "checkChrome", "", e, "cdp")
            /\ rgets' = [rgets EXCEPT ![p] = 0]
            /\ UNCHANGED rpc
       ELSE /\ rpc' = [rpc EXCEPT ![p] = "checkChrome"]
            /\ rgets' = [rgets EXCEPT ![p] = 1]
            /\ UNCHANGED rret
    /\ UNCHANGED <<ws, cachedWS, cachedAt, now, ticks, rmiss>>
    /\ UNCHANGED notResVars

\* The rest of checkChrome: the response of /json/version arrives.
CheckChromeProbed(p) ==
    /\ rpc[p] = "checkChrome"
    /\ \E resp \in VersionResponses :
         LET d == Discover(resp) IN
           /\ IF d.err = "" THEN setCachedWS(d.url)
                            ELSE UNCHANGED <<cachedWS, cachedAt>>
           /\ rret' = ResolverReturn(p, "checkChrome", "", d.err, "discovery")
    /\ rpc' = [rpc EXCEPT ![p] = "idle"]
    /\ UNCHANGED <<ws, now, ticks, rmiss, rgets>>
    /\ UNCHANGED notResVars

\* Time passes.
Tick ==
    /\ ticks < MaxTicks
    /\ \E d \in TickSteps : now' = now + d
    /\ ticks' = ticks + 1
    /\ UNCHANGED <<ws, cachedWS, cachedAt, rpc, rmiss, rret, rgets>>
    /\ UNCHANGED notResVars

(***************************************************************************)
(* healthHandler.                                                          *)
(***************************************************************************)
HealthMethods == {"GET", "HEAD", "POST"}
\* What checkChrome returns if it is called: nil ("") or an error.
CheckAnswers ==
    {"", "dial tcp: connection refused", "missing websocket debugger url"}
\* A request to /healthz, whether the resolver has a checkChrome method,
\* and what checkChrome and wsURL answer if they are called.
HealthRequests ==
    [ method : HealthMethods, hasChecker : BOOLEAN, checkErr : CheckAnswers,
      ws : ResolverAnswers ]

HasChecker_Never(r) == FALSE

\* The type assertion resolver.(interface{ checkChrome(ctx) error }).
HasChecker(r) == r.hasChecker

\* w.WriteHeader(http.StatusOK); w.Write([]byte("ok")): the handler sets
\* no header.
HealthOK == [status |-> 200, header |-> NoHeaders, body |-> "ok"]

healthHandler(r) ==
    IF HasChecker(r)
    THEN IF r.checkErr # ""
         THEN [response |-> HttpError("chrome unavailable", 503),
               invoked |-> <<"checkChrome">>]
         ELSE [response |-> HealthOK, invoked |-> <<"checkChrome">>]
    ELSE IF r.ws.err # ""
         THEN [response |-> HttpError("chrome unavailable", 503),
               invoked |-> <<"wsURL">>]
         ELSE [response |-> HealthOK, invoked |-> <<"wsURL">>]

InitHealth ==
    /\ hrequest \in HealthRequests
    /\ hresponse = NoResponse
    /\ hinvoked = <<>>

ServeHealth ==
    /\ hresponse = NoResponse
    /\ hresponse' = healthHandler(hrequest).response
    /\ hinvoked' = healthHandler(hrequest).invoked
    /\ UNCHANGED hrequest
    /\ UNCHANGED notHealthVars

(***************************************************************************)
(* Rendering session: openTargetSession, closeTarget and the render that   *)
(* uses them.                                                              *)
(***************************************************************************)
\* strings.Contains
Contains(str, substr) ==
    \E i \in 0..(Len(str) - Len(substr)) :
        SubSeq(str, i + 1, i + Len(substr)) = substr

\* WebSocket URLs as the sequence of their pieces; the text of a URL is the
\* concatenation of the pieces.  A browser endpoint, a page endpoint, and
\* browser endpoints that carry the page marker in the query or in the
\* fragment only.
PageMarker == "/devtools/page/"
BrowserWS == <<"ws://", "chrome:9222", "/devtools/browser/", "b1">>
PageWS == <<"ws://", "chrome:9222", PageMarker, "p1">>
QueryWS == BrowserWS \o <<"?", "from=", PageMarker, "p1">>
FragmentWS == BrowserWS \o <<"#", PageMarker>>
SessionURLs == {BrowserWS, PageWS, QueryWS, FragmentWS}
\* strings.Contains(wsURL, "/devtools/page/")
isPageWebSocket_Never(wsURL) == FALSE
isPageWebSocket(wsURL) == Contains(wsURL, <<PageMarker>>)
\* The targetId parameter of Target.attachToTarget.
AttachTargetId_Blank(created) == ""
AttachTargetId(created) == created
\* The id Chromium gives the n-th target it creates.
TargetName(n) == "T" \o ToString(n)
SessionName(n) == "S" \o ToString(n)

\* The error a failed Call returns: the context's, or the CDP error.
CallError(ctxIsDone, method) ==
    IF ctxIsDone THEN "context deadline exceeded"
    ELSE "cdp " \o method \o " error -32000: Target closed"

InitSession ==
    /\ spc = "idle"
    /\ swsURL = <<>>
    /\ screated = ""
    /\ stargetID = ""
    /\ ssessionID = ""
    /\ sctxDone = FALSE
    /\ stargets = {}
    /\ sclosed = <<>>
    /\ srenders = 0
    /\ serr = ""
    /\ sattached = <<>>

\* A render starts: a page endpoint needs no session, a browser endpoint
\* goes through openTargetSession first.
RenderStart ==
    /\ spc \in {"idle", "done", "failed"}
    /\ srenders < MaxRenders
    /\ srenders' = srenders + 1
    /\ \E u \in SessionURLs :
         /\ swsURL' = u
         /\ spc' = IF isPageWebSocket(u) THEN "rendering" ELSE "creating"
    /\ screated' = "" /\ stargetID' = "" /\ ssessionID' = ""
    /\ sctxDone' = FALSE
    /\ serr' = ""
    /\ UNCHANGED <<stargets, sclosed, sattached>>
    /\ UNCHANGED notSessVars

\* openTargetSession, first half: Target.createTarget.
CreateTarget ==
    /\ spc = "creating"
    /\ \/ \* the Call fails: return "", "", err
          /\ spc' = "failed"
          /\ serr' = CallError(sctxDone, "Target.createTarget")
          /\ UNCHANGED <<screated, stargets>>
       \/ \* the Call succeeds without a target id
          /\ ~sctxDone
          /\ spc' = "failed"
          /\ serr' = "cdp target id missing"
          /\ UNCHANGED <<screated, stargets>>
       \/ \* the Call succeeds: Chromium created a target
          /\ ~sctxDone
          /\ screated' = TargetName(srenders)
          /\ stargets' = stargets \cup {TargetName(srenders)}
          /\ spc' = "attaching"
          /\ UNCHANGED serr
    /\ UNCHANGED <<swsURL, stargetID, ssessionID, sctxDone, sclosed, srenders,
                   sattached>>
    /\ UNCHANGED notSessVars

\* openTargetSession, second half: Target.attachToTarget and the return.
AttachToTarget ==
    /\ spc = "attaching"
    /\ sattached' = IF sctxDone THEN sattached
                    ELSE Append(sattached, AttachTargetId(screated))
    /\ \/ \* the Call fails: return "", "", err
          /\ spc' = "failed"
          /\ serr' = CallError(sctxDone, "Target.attachToTarget")
          /\ UNCHANGED <<stargetID, ssessionID>>
       \/ \* no session id: return "", "", err
          /\ ~sctxDone
          /\ spc' = "failed"
          /\ serr' = "cdp session id missing"
          /\ UNCHANGED <<stargetID, ssessionID>>
       \/ \* return attached.SessionID, created.TargetID, nil
          /\ ~sctxDone
          /\ ssessionID' = SessionName(srenders)
          /\ stargetID' = screated
          /\ spc' = "rendering"
          /\ UNCHANGED serr
    /\ UNCHANGED <<swsURL, screated, sctxDone, stargets, sclosed, srenders>>
    /\ UNCHANGED notSessVars

\* The calls of the rendering sequence succeed or one of them fails; the
\* deferred cleanup runs next either way.
RenderCalls ==
    /\ spc = "rendering"
    /\ spc' \in {"closing-ok", "closing-failed"}
    /\ sctxDone => spc' = "closing-failed"
    /\ serr' = IF spc' = "closing-ok" THEN ""
               ELSE CallError(sctxDone, "Page.printToPDF")
    /\ UNCHANGED <<swsURL, screated, stargetID, ssessionID, sctxDone, stargets,
                   sclosed, srenders, sattached>>
    /\ UNCHANGED notSessVars

\* closeTarget(detached ctx, client, targetID), deferred by the render when
\* it opened a session; best effort, its error is dropped.
DeferredCloseTarget ==
    /\ spc \in {"closing-ok", "closing-failed"}
    /\ spc' = IF spc = "closing-ok" THEN "done" ELSE "failed"
    /\ IF isPageWebSocket(swsURL) \/ stargetID = ""
       THEN UNCHANGED sclosed
       ELSE sclosed' = Append(sclosed, stargetID)
    /\ UNCHANGED <<swsURL, screated, stargetID, ssessionID, sctxDone, stargets,
                   srenders, serr, sattached>>
    /\ UNCHANGED notSessVars

\* The request context of the render is cancelled or its deadline passes.
RenderCtxDone ==
    /\ spc \in {"creating", "attaching", "rendering"}
    /\ ~sctxDone
    /\ sctxDone' = TRUE
    /\ UNCHANGED <<spc, swsURL, screated, stargetID, ssessionID, stargets,
                   sclosed, srenders, serr, sattached>>
    /\ UNCHANGED notSessVars

(***************************************************************************)
(* Suspension points: cdpClient.write, cdpClient.read and waitForBody      *)
(* under cancellation and deadlines.                                       *)
(***************************************************************************)
KDone == kcancelled \/ kexpired

InitCancel ==
    /\ kop = "none"
    /\ kpc = "idle"
    /\ kstep = 0
    /\ kdeadline = FALSE
    /\ kcancelled = FALSE
    /\ kexpired = FALSE
    /\ kwdl = "none"
    /\ krdl = "none"
    /\ kret = "none"
    /\ kclosed = FALSE

\* Operations on c.conn work until Close has closed it.
ConnOpen_Always == TRUE
ConnOpen == ~kclosed

\* The operation returns r to its caller.
KReturn(r) ==
    /\ kop' = "none"
    /\ kpc' = "idle"
    /\ kstep' = 0
    /\ kret' = r

\* A Call returned nil.  A plain Call returns nil to its caller.  Inside
\* hasBody, DOM.getDocument is followed by DOM.querySelector unless the
\* document has no root node; waitForBody returns nil when hasBody found
\* the body and waits in its select when it did not.
KCallSucceeded ==
    IF kop = "Call" THEN KReturn("nil")
    ELSE \/ /\ kstep = 1
            /\ kstep' = 2
            /\ kpc' = "write"
            /\ UNCHANGED <<kop, kret>>
         \/ /\ kstep = 2
            /\ KReturn("nil")
         \/ /\ kpc' = "select"
            /\ kstep' = 0
            /\ UNCHANGED <<kop, kret>>

\* A Call or waitForBody is started with a fresh context, with or without
\* a deadline; the connection keeps the deadlines earlier calls installed.
KStart ==
    /\ kpc = "idle"
    /\ \E op \in {"Call", "waitForBody"} :
         /\ kop' = op
         /\ kstep' = IF op = "Call" THEN 0 ELSE 1
    /\ kdeadline' \in BOOLEAN
    /\ kcancelled' = FALSE
    /\ kexpired' = FALSE
    /\ kpc' = "write"
    /\ UNCHANGED <<kwdl, krdl, kret>>
    /\ UNCHANGED kclosed
    /\ UNCHANGED notCancelVars

\* cdpClient.write: ctx.Err() is tested, the context's deadline, if it has
\* one, becomes the write deadline, and conn.Write is entered; it completes
\* at once, or blocks while the peer does not read.
KWrite ==
    /\ kpc = "write"
    /\ IF KDone
       THEN /\ KReturn("context")
            /\ UNCHANGED kwdl
       ELSE IF ~ConnOpen
       THEN /\ KReturn("write on closed connection")
            /\ UNCHANGED kwdl
       ELSE /\ kwdl' = IF kdeadline THEN "pending" ELSE kwdl
            /\ kpc' \in {"read", "writing"}
            /\ kwdl' = "passed" => kpc' = "writing"
            /\ UNCHANGED <<kop, kstep, kret>>
    /\ UNCHANGED <<kdeadline, kcancelled, kexpired, krdl>>
    /\ UNCHANGED kclosed
    /\ UNCHANGED notCancelVars

\* The peer reads and the blocked conn.Write completes.
KWriteCompletes ==
    /\ kpc = "writing"
    /\ ConnOpen
    /\ kwdl # "passed"
    /\ kpc' = "read"
    /\ UNCHANGED <<kop, kstep, kdeadline, kcancelled, kexpired, kwdl, krdl, kret>>
    /\ UNCHANGED kclosed
    /\ UNCHANGED notCancelVars

\* The write deadline installed on the connection has passed: conn.Write
\* fails with a timeout and Call returns it.
KWriteTimeout ==
    /\ kpc = "writing"
    /\ kwdl = "passed"
    /\ KReturn("timeout")
    /\ UNCHANGED <<kdeadline, kcancelled, kexpired, kwdl, krdl>>
    /\ UNCHANGED kclosed
    /\ UNCHANGED notCancelVars

\* Close has closed the connection: the blocked conn.Write fails.
KWriteClosed ==
    /\ kpc = "writing"
    /\ ~ConnOpen
    /\ KReturn("write on closed connection")
    /\ UNCHANGED <<kdeadline, kcancelled, kexpired, kwdl, krdl, kclosed>>
    /\ UNCHANGED notCancelVars

\* conn.Write fails for another reason.
KWriteFails ==
    /\ kpc = "writing"
    /\ KReturn("write")
    /\ UNCHANGED <<kdeadline, kcancelled, kexpired, kwdl, krdl>>
    /\ UNCHANGED kclosed
    /\ UNCHANGED notCancelVars

\* isTimeout: the error is a net.Error whose Timeout() is true.  Of the
\* errors readMessage returns only the one of a passed read deadline is.
isTimeout_Any(err) == TRUE
isTimeout(err) == err = "timeout"

\* if isTimeout(err) && ctx.Err() == nil { continue }
Retried(err, done) == isTimeout(err) /\ ~done

\* The top of cdpClient.read's loop: ctx.Err() is tested, the read deadline
\* becomes the context's deadline or, without one, now + cdpPollInterval,
\* and readMessage is entered.
KRead ==
    /\ kpc = "read"
    /\ IF KDone
       THEN /\ KReturn("context")
            /\ UNCHANGED krdl
       ELSE IF ~ConnOpen
       THEN /\ KReturn("deadline on closed connection")
            /\ UNCHANGED krdl
       ELSE /\ krdl' = IF kdeadline THEN "ctx" ELSE "poll"
            /\ kpc' = "reading"
            /\ UNCHANGED <<kop, kstep, kret>>
    /\ UNCHANGED <<kdeadline, kcancelled, kexpired, kwdl>>
    /\ UNCHANGED kclosed
    /\ UNCHANGED notCancelVars

\* readMessage delivers a message: one that Call discards, after which it
\* reads again, or the response, on which the Call returns.
KMessage ==
    /\ kpc = "reading"
    /\ ConnOpen
    /\ \/ /\ kpc' = "read"
          /\ UNCHANGED <<kop, kstep, kret>>
       \/ KCallSucceeded
       \/ KReturn("cdp")
    /\ UNCHANGED <<kdeadline, kcancelled, kexpired, kwdl, krdl>>
    /\ UNCHANGED kclosed
    /\ UNCHANGED notCancelVars

\* The read deadline passes with no message: the 100 ms poll, or the
\* context's deadline.  The timeout is retried while ctx.Err() is nil and
\* returned otherwise.
KReadTimeout ==
    /\ kpc = "reading"
    /\ krdl = "poll" \/ kexpired
    /\ IF Retried("timeout", KDone)
       THEN /\ kpc' = "read"
            /\ UNCHANGED <<kop, kstep, kret>>
       ELSE KReturn("timeout")
    /\ UNCHANGED <<kdeadline, kcancelled, kexpired, kwdl, krdl>>
    /\ UNCHANGED kclosed
    /\ UNCHANGED notCancelVars

\* Close has closed the connection: the blocked read fails with an error
\* that is not a timeout, and read returns it.
KReadClosed ==
    /\ kpc = "reading"
    /\ ~ConnOpen
    /\ KReturn("read on closed connection")
    /\ UNCHANGED <<kdeadline, kcancelled, kexpired, kwdl, krdl, kclosed>>
    /\ UNCHANGED notCancelVars

\* readMessage fails for another reason.
KReadFails ==
    /\ kpc = "reading"
    /\ IF Retried("read", KDone)
       THEN /\ kpc' = "read"
            /\ UNCHANGED <<kop, kstep, kret>>
       ELSE KReturn("read")
    /\ UNCHANGED <<kdeadline, kcancelled, kexpired, kwdl, krdl>>
    /\ UNCHANGED kclosed
    /\ UNCHANGED notCancelVars

\* waitForBody's select: ctx.Done() wins when the context is done, else
\* the 50 ms ticker fires and hasBody is called again.
KSelect ==
    /\ kpc = "select"
    /\ \/ /\ KDone
          /\ KReturn("context")
       \/ /\ kpc' = "write"
          /\ kstep' = 1
          /\ UNCHANGED <<kop, kret>>
    /\ UNCHANGED <<kdeadline, kcancelled, kexpired, kwdl, krdl>>
    /\ UNCHANGED kclosed
    /\ UNCHANGED notCancelVars

\* Close is called, by any goroutine and without taking c.mu.
KClose ==
    /\ ~kclosed
    /\ kclosed' = TRUE
    /\ UNCHANGED <<kop, kpc, kstep, kdeadline, kcancelled, kexpired, kwdl, krdl,
                   kret>>
    /\ UNCHANGED notCancelVars

\* The caller cancels the context.
KCancel ==
    /\ kpc # "idle"
    /\ ~kcancelled
    /\ kcancelled' = TRUE
    /\ UNCHANGED <<kop, kpc, kstep, kdeadline, kexpired, kwdl, krdl, kret>>
    /\ UNCHANGED kclosed
    /\ UNCHANGED notCancelVars

\* The context's deadline passes, and with it the write deadline that was
\* taken from it.
KDeadlinePasses ==
    /\ kpc # "idle"
    /\ kdeadline /\ ~kexpired
    /\ kexpired' = TRUE
    /\ kwdl' = IF kwdl = "pending" THEN "passed" ELSE kwdl
    /\ UNCHANGED <<kop, kpc, kstep, kdeadline, kcancelled, krdl, kret>>
    /\ UNCHANGED kclosed
    /\ UNCHANGED notCancelVars

\* A write deadline left on the connection by an earlier call passes.
KStaleDeadlinePasses ==
    /\ kwdl = "pending"
    /\ ~kdeadline \/ kpc = "idle"
    /\ kwdl' = "passed"
    /\ UNCHANGED <<kop, kpc, kstep, kdeadline, kcancelled, kexpired, krdl, kret>>
    /\ UNCHANGED kclosed
    /\ UNCHANGED notCancelVars

(***************************************************************************)
(* WebSocket frames: writeTextMessage, writeControlFrame, writeFrame.      *)
(***************************************************************************)
MaxTextLen == 2             \* short payloads are enumerated up to this length
maxLen7 == 125              \* largest length the 7-bit form holds
maxLen16 == 65535           \* largest length the 16-bit form holds
opText == 1
opClose == 8
opPong == 10

\* Bitwise operations of Go on non-negative integers.
RECURSIVE BitXor(_, _)
BitXor(a, b) ==
    IF a = 0 THEN b
    ELSE IF b = 0 THEN a
    ELSE (((a % 2) + (b % 2)) % 2) + 2 * BitXor(a \div 2, b \div 2)

RECURSIVE BitOr(_, _)
BitOr(a, b) ==
    IF a = 0 THEN b
    ELSE IF b = 0 THEN a
    ELSE (IF a % 2 = 1 \/ b % 2 = 1 THEN 1 ELSE 0)
             + 2 * BitOr(a \div 2, b \div 2)

\* n >> k, and byte(n >> k)
RECURSIVE Shr(_, _)
Shr(n, k) == IF k = 0 \/ n = 0 THEN n ELSE Shr(n \div 2, k - 1)
ByteShr(n, k) == Shr(n, k) % 256

\* The payloads written: every short sequence over a few byte values, and
\* for each boundary of the length forms a payload of that length.
SampleBytes == {0, 65, 128, 255}
LongLens == {maxLen7, maxLen7 + 1, maxLen16, maxLen16 + 1}
LongPayload(n, first) == [i \in 1..n |-> (first + 7 * (i - 1)) % 256]
Payloads ==
    UNION { [1..n -> SampleBytes] : n \in 0..MaxTextLen }
    \cup { LongPayload(n, first) : n \in LongLens, first \in {0, 123} }
MaskKeys == { <<0, 0, 0, 0>>, <<1, 2, 3, 4>>, <<255, 128, 65, 90>> }

\* frame[0]
FirstByte(opcode, fin) == IF fin THEN BitOr(128, opcode) ELSE opcode

\* frame[1] and the extended length that follows it
LengthField(payloadLen) ==
    IF payloadLen <= maxLen7
    THEN <<BitOr(128, payloadLen)>>
    ELSE IF payloadLen <= maxLen16
    THEN <<BitOr(128, 126), ByteShr(payloadLen, 8), ByteShr(payloadLen, 0)>>
    ELSE <<BitOr(128, 127),
           ByteShr(payloadLen, 56), ByteShr(payloadLen, 48),
           ByteShr(payloadLen, 40), ByteShr(payloadLen, 32),
           ByteShr(payloadLen, 24), ByteShr(payloadLen, 16),
           ByteShr(payloadLen, 8), ByteShr(payloadLen, 0)>>

\* frame[offset+i] = payload[i] ^ maskKey[i%4]
MaskedPayload_KeyMod3(payload, maskKey) ==
    [i \in 1..Len(payload) |-> BitXor(payload[i], maskKey[((i - 1) % 3) + 1])]
MaskedPayload(payload, maskKey) ==
    [i \in 1..Len(payload) |-> BitXor(payload[i], maskKey[((i - 1) % 4) + 1])]

\* The frame writeFrame hands to conn.Write, for the key rand.Read gave.
writeFrame(opcode, payload, fin, maskKey) ==
    <<FirstByte(opcode, fin)>> \o LengthField(Len(payload)) \o maskKey
        \o MaskedPayload(payload, maskKey)

InitFrame ==
    /\ fpayload \in Payloads
    /\ fkey \in MaskKeys
    /\ fop = "none"
    /\ fframe = <<>>
    /\ ferr = ""

\* writeTextMessage(payload)
WriteTextMessage ==
    /\ fop = "none"
    /\ fop' = "text"
    /\ fframe' = writeFrame(opText, fpayload, TRUE, fkey)
    /\ ferr' = ""
    /\ UNCHANGED <<fpayload, fkey>>
    /\ UNCHANGED notFrameVars

\* writeControlFrame(opcode, payload), for the pong and close frames the
\* reader sends.
WriteControlFrame ==
    /\ fop = "none"
    /\ fop' = "control"
    /\ \E opcode \in {opClose, opPong} :
         IF Len(fpayload) > maxLen7
         THEN /\ fframe' = <<>>
              /\ ferr' = "websocket control frame too large"
         ELSE /\ fframe' = writeFrame(opcode, fpayload, TRUE, fkey)
              /\ ferr' = ""
    /\ UNCHANGED <<fpayload, fkey>>
    /\ UNCHANGED notFrameVars

(***************************************************************************)
(* WebSocket messages: readFrame and readMessage.                          *)
(***************************************************************************)
MaxFrames == 3              \* frames read in one behaviour

RECURSIVE BitAnd(_, _)
BitAnd(a, b) ==
    IF a = 0 \/ b = 0 THEN 0
    ELSE (IF a % 2 = 1 /\ b % 2 = 1 THEN 1 ELSE 0)
             + 2 * BitAnd(a \div 2, b \div 2)

\* int(ext[0])<<8 | int(ext[1]) and its 8-byte form
RECURSIVE ShiftOr(_)
ShiftOr(ext) ==
    IF ext = <<>> THEN 0
    ELSE BitOr(256 * ShiftOr(SubSeq(ext, 1, Len(ext) - 1)), ext[Len(ext)])

\* The frames the server sends.  wire says how the frame is put on the
\* wire: with the 7-bit, 16-bit or 64-bit length form (a server may use a
\* longer form than needed), with a 64-bit length above the largest int
\* ("huge"), or cut short by the end of the stream ("cut").
ServerOpcodes == {0, 1, 2, 3, 8, 9, 10}
ReservedOpcodes == (3..7) \cup (11..15)
ReadPayloads == {<<>>, <<65>>, <<66, 67>>}
ServerFrames ==
    [fin : BOOLEAN, opcode : ServerOpcodes, masked : BOOLEAN, wire : {"7"},
     payload : ReadPayloads]
    \cup [fin : {TRUE}, opcode : {1, 9}, masked : {FALSE},
          wire : {"16", "64", "huge", "cut"}, payload : {<<65>>}]
    \cup [fin : {TRUE}, opcode : {1, opClose, 9}, masked : {FALSE},
          wire : {"16"}, payload : {LongPayload(maxLen7 + 1, 0)}]
    \cup [fin : BOOLEAN, opcode : ReservedOpcodes, masked : {FALSE},
          wire : {"7"}, payload : {<<65>>}]
ServerKey == <<9, 8, 7, 6>>
NoServerFrame ==
    [fin |-> FALSE, opcode |-> 0, masked |-> FALSE, wire |-> "none",
     payload |-> <<>>]

ServerLength(fr) ==
    LET n == Len(fr.payload)
        m == IF fr.masked THEN 128 ELSE 0
    IN  IF fr.wire \in {"7", "cut"} THEN <<m + n>>
        ELSE IF fr.wire = "16" THEN <<m + 126, ByteShr(n, 8), ByteShr(n, 0)>>
        ELSE IF fr.wire = "64"
        THEN <<m + 127, 0, 0, 0, 0, ByteShr(n, 24), ByteShr(n, 16),
               ByteShr(n, 8), ByteShr(n, 0)>>
        ELSE <<m + 127, 128, 0, 0, 0, 0, 0, 0, 0>>

\* The bytes of one server frame as they reach c.br.
ServerBytes(fr) ==
    LET head == <<(IF fr.fin THEN 128 ELSE 0) + fr.opcode>> \o ServerLength(fr)
        body == IF fr.masked
                THEN ServerKey \o MaskedPayload(fr.payload, ServerKey)
                ELSE fr.payload
    IN  IF fr.wire = "huge" THEN head
        ELSE IF fr.wire = "cut" THEN SubSeq(head \o body, 1, Len(head \o body) - 1)
        ELSE head \o body

FrameError(e) == [fin |-> FALSE, opcode |-> 0, payload |-> <<>>, err |-> e]

\* The mask test of readFrame.
IsMasked_Never(b) == FALSE
IsMasked(b) == BitAnd(b, 128) # 0

\* readFrame on the bytes br: (fin, opcode, payload, err).
readFrame(br) ==
    IF Len(br) < 2 THEN FrameError("unexpected EOF")
    ELSE
    LET fin == BitAnd(br[1], 128) # 0
        opcode == BitAnd(br[1], 15)
        len7 == BitAnd(br[2], 127)
        extLen == IF len7 = 126 THEN 2 ELSE IF len7 = 127 THEN 8 ELSE 0
    IN  IF IsMasked(br[2])
        THEN FrameError("server websocket frames must not be masked")
        ELSE IF Len(br) < 2 + extLen THEN FrameError("unexpected EOF")
        ELSE IF len7 = 127 /\ br[3] >= 128
        THEN FrameError("websocket frame too large")
        ELSE
        LET payloadLen == IF extLen = 0 THEN len7
                          ELSE ShiftOr(SubSeq(br, 3, 2 + extLen))
        IN  IF Len(br) < 2 + extLen + payloadLen
            THEN FrameError("unexpected EOF")
            ELSE [fin |-> fin, opcode |-> opcode,
                  payload |-> SubSeq(br, 3 + extLen, 2 + extLen + payloadLen),
                  err |-> ""]

\* What one turn of readMessage's loop does with the frame f, from the
\* locals message and collecting: the locals after it, whether the call
\* returns and with what, and the control frame it wrote.  key is the mask
\* key rand.Read gives the writer and wok says whether conn.Write succeeds.
Goes(message, collecting) ==
    [message |-> message, collecting |-> collecting, done |-> FALSE,
     msg |-> <<>>, err |-> "", wrote |-> <<>>]
Returns(msg, err) ==
    [message |-> <<>>, collecting |-> FALSE, done |-> TRUE,
     msg |-> msg, err |-> err, wrote |-> <<>>]
Appended(message, f) ==
    IF f.fin THEN Returns(message \o f.payload, "")
    ELSE Goes(message \o f.payload, TRUE)
\* case 0x0
OnContinuation_AlwaysAppend(message, collecting, f) == Appended(message, f)
OnContinuation(message, collecting, f) ==
    IF ~collecting
    THEN Returns(<<>>, "websocket continuation without start frame")
    ELSE Appended(message, f)
\* case 0x1
OnText(message, collecting, f) ==
    IF collecting
    THEN Returns(<<>>, "websocket data frame while continuation pending")
    ELSE Appended(message, f)
\* case 0x2
OnBinary(message, collecting) ==
    Returns(<<>>, "unexpected binary websocket frame")
\* default
OnOther_Skip(message, collecting) == Goes(message, collecting)
OnOther(message, collecting) ==
    Returns(<<>>, "unsupported websocket opcode")
\* case 0x8
OnClose_WriteDecides(f, key, wok) ==
    IF wok THEN Returns(<<>>, "EOF") ELSE Returns(<<>>, "write")
OnClose(f, key, wok) ==
    LET closePayload == IF Len(f.payload) > maxLen7 THEN <<>> ELSE f.payload
    IN  [Returns(<<>>, "EOF") EXCEPT
            !.wrote = IF wok THEN writeFrame(opClose, closePayload, TRUE, key)
                      ELSE <<>>]
\* case 0x9
OnPing_NoPong(message, collecting, f, key, wok) == Goes(message, collecting)
OnPing(message, collecting, f, key, wok) ==
    IF Len(f.payload) > maxLen7
    THEN Returns(<<>>, "websocket control frame too large")
    ELSE IF ~wok THEN Returns(<<>>, "write")
    ELSE [Goes(message, collecting) EXCEPT
             !.wrote = writeFrame(opPong, f.payload, TRUE, key)]

readMessageTurn(message, collecting, f, key, wok) ==
    IF f.err # "" THEN Returns(<<>>, f.err)
    ELSE IF f.opcode = 0 THEN OnContinuation(message, collecting, f)
    ELSE IF f.opcode = 1 THEN OnText(message, collecting, f)
    ELSE IF f.opcode = 2 THEN OnBinary(message, collecting)
    ELSE IF f.opcode = opClose THEN OnClose(f, key, wok)
    ELSE IF f.opcode = 9 THEN OnPing(message, collecting, f, key, wok)
    ELSE IF f.opcode = opPong THEN Goes(message, collecting)
    ELSE OnOther(message, collecting)

\* var message []byte; collecting := false
NewMessage_CarryOver(last) == last
NewMessage(last) == <<>>

NoReadReturn == [msg |-> <<>>, err |-> "none"]

InitRead ==
    /\ mpc = "idle"
    /\ mmessage = <<>>
    /\ mcollecting = FALSE
    /\ mret = NoReadReturn
    /\ mlast = NoServerFrame
    /\ mbefore = [message |-> <<>>, collecting |-> FALSE]
    /\ mwrote = <<>>
    /\ mexpect = <<>>
    /\ mframes = 0

\* readMessage is called.
ReadMessage ==
    /\ mpc = "idle"
    /\ mframes < MaxFrames
    /\ mpc' = "reading"
    /\ mmessage' = NewMessage(mret.msg)
    /\ mcollecting' = FALSE
    /\ mexpect' = <<>>
    /\ mlast' = NoServerFrame
    /\ mbefore' = [message |-> <<>>, collecting |-> FALSE]
    /\ mwrote' = <<>>
    /\ UNCHANGED <<mret, mframes>>
    /\ UNCHANGED notReadVars

\* The frames whose turn writes a control frame: only for them do the mask
\* key and the outcome of conn.Write matter.
Answered(fr) == fr.opcode \in {opClose, 9}
WriterKeys(fr) == IF Answered(fr) THEN MaskKeys ELSE {<<0, 0, 0, 0>>}
WriteOutcomes(fr) == IF Answered(fr) THEN BOOLEAN ELSE {TRUE}

\* One turn of readMessage's loop: a frame arrives, readFrame parses it and
\* the switch on its opcode runs.
ReadFrame ==
    /\ mpc = "reading"
    /\ mframes < MaxFrames
    /\ \E fr \in ServerFrames :
       \E key \in WriterKeys(fr), wok \in WriteOutcomes(fr) :
         LET f == readFrame(ServerBytes(fr))
             t == readMessageTurn(mmessage, mcollecting, f, key, wok)
         IN  /\ mlast' = fr
             /\ mbefore' = [message |-> mmessage, collecting |-> mcollecting]
             /\ mmessage' = t.message
             /\ mcollecting' = t.collecting
             /\ mwrote' = t.wrote
             /\ mpc' = IF t.done THEN "idle" ELSE "reading"
             /\ mret' = IF t.done THEN [msg |-> t.msg, err |-> t.err] ELSE mret
             /\ mexpect' = IF fr.opcode \in {0, 1} /\ ~fr.masked
                              /\ fr.wire \in {"7", "16", "64"}
                           THEN mexpect \o fr.payload ELSE mexpect
    /\ mframes' = mframes + 1
    /\ UNCHANGED notReadVars

(***************************************************************************)
(* The WebSocket handshake: dialWebSocket.                                 *)
(***************************************************************************)
websocketMagicGUID == "258EAFA5-E914-47DA-95CA-C5AB0DC85B11"

\* Header values are sequences of characters.
UpperCase == 
    <<"A", "B", "C", "D", "E", "F", "G", "H", "I", "J", "K", "L", "M",
      "N", "O", "P", "Q", "R", "S", "T", "U", "V", "W", "X", "Y", "Z">>
LowerCase == 
    <<"a", "b", "c", "d", "e", "f", "g", "h", "i", "j", "k", "l", "m",
      "n", "o", "p", "q", "r", "s", "t", "u", "v", "w", "x", "y", "z">>
\* strings.ToLower
ToLower(str) ==
    [i \in 1..Len(str) |->
        IF \E k \in 1..Len(UpperCase) : UpperCase[k] = str[i]
        THEN LowerCase[CHOOSE k \in 1..Len(UpperCase) : UpperCase[k] = str[i]]
        ELSE str[i]]

\* sha1 and base64 as injective term constructors.
Sha1(text) == "sha1(" \o text \o ")"
Base64(bytes) == "base64(" \o bytes \o ")"

\* The keys generateWebSocketKey may draw: base64 of 16 random bytes.
WebSocketKeys == { Base64("key-1"), Base64("key-2") }

computeWebSocketAccept_FixedKey(key) ==
    Base64(Sha1(Base64("key-1") \o websocketMagicGUID))
computeWebSocketAccept(key) == Base64(Sha1(key \o websocketMagicGUID))

\* What the peer may answer.
Statuses == {101, 200}
ConnectionValues ==
    { <<"U", "p", "g", "r", "a", "d", "e">>, <<"u", "p", "g", "r", "a", "d", "e">>,
      <<"k", "e", "e", "p", "-", "a", "l",
        "i", "v", "e", ",", " ", "U", "P", "G", "R", "A", "D", "E">>,
      <<"c", "l", "o", "s", "e">>, <<>> }
UpgradeValues ==
    { <<"w", "e", "b", "s", "o", "c", "k", "e", "t">>,
      <<"W", "e", "b", "S", "o", "c", "k", "e", "t">>, <<"h", "2", "c">>, <<>> }
AcceptValues ==
    { computeWebSocketAccept(k) : k \in WebSocketKeys }
    \cup { "", Base64(Sha1(Base64("key-1"))) }

\* Where a step of the dial may fail for reasons outside the handshake.
FailPoints ==
    { "none", "parse", "dial", "tls", "keygen", "newrequest", "setdeadline",
      "write", "read", "cleardeadline" }

DialInputs ==
    [ scheme : {"ws", "wss", "http"}, hasDeadline : BOOLEAN, fail : FailPoints,
      key : WebSocketKeys, status : Statuses, connection : ConnectionValues,
      upgrade : UpgradeValues, accept : AcceptValues ]

\* Returns without a connection having been opened / after closing it /
\* with the open connection.
DialFailed(e) == [tcp |-> "none", conn |-> FALSE, err |-> e]
DialClosed(e) == [tcp |-> "closed", conn |-> FALSE, err |-> e]
DialOK == [tcp |-> "open", conn |-> TRUE, err |-> ""]

dialWebSocket(in) ==
    IF in.fail = "parse" THEN DialFailed("parse")
    ELSE IF in.scheme # "ws" /\ in.scheme # "wss"
    THEN DialFailed("unsupported websocket scheme")
    ELSE IF in.fail = "dial" THEN DialFailed("dial")
    ELSE IF in.scheme = "wss" /\ in.fail = "tls" THEN DialClosed("tls")
    ELSE IF in.fail = "keygen" THEN DialClosed("rand")
    ELSE IF in.fail = "newrequest" THEN DialClosed("request")
    ELSE IF in.hasDeadline /\ in.fail = "setdeadline" THEN DialClosed("deadline")
    ELSE IF in.fail = "write" THEN DialClosed("write")
    ELSE IF in.fail = "read" THEN DialClosed("read")
    ELSE IF in.status # 101
    THEN DialClosed("websocket handshake failed: status")
    ELSE IF ~Contains(ToLower(in.connection), <<"u", "p", "g", "r", "a", "d", "e">>)
    THEN DialClosed("websocket handshake failed: missing connection upgrade")
    ELSE IF ~Contains(ToLower(in.upgrade),
                      <<"w", "e", "b", "s", "o", "c", "k", "e", "t">>)
    THEN DialClosed("websocket handshake failed: missing upgrade websocket")
    ELSE IF in.accept # computeWebSocketAccept(in.key)
    THEN DialClosed("websocket handshake failed: invalid accept key")
    ELSE IF in.fail = "cleardeadline" THEN DialClosed("deadline")
    ELSE DialOK

NoDial == [conn |-> FALSE, err |-> "none"]

InitDial ==
    /\ din \in DialInputs
    /\ dtcp = "none"
    /\ dret = NoDial

\* dialWebSocket(ctx, wsURL)
DialWebSocket ==
    /\ dret = NoDial
    /\ dret' = [conn |-> dialWebSocket(din).conn, err |-> dialWebSocket(din).err]
    /\ dtcp' = dialWebSocket(din).tcp
    /\ UNCHANGED din
    /\ UNCHANGED notDialVars

(***************************************************************************)
(* Print parameters: the printToPDF action of renderPDF.                   *)
(***************************************************************************)
\* The pointer fields of pdfOptions and the parameter each is copied to.
PointerFields ==
    { "PrintBackground", "Landscape", "Scale", "PaperWidth", "PaperHeight",
      "MarginTop", "MarginBottom", "MarginLeft", "MarginRight" }
BoolFields == { "PrintBackground", "Landscape" }
MarginFields == { "MarginTop", "MarginBottom", "MarginLeft", "MarginRight" }
ParamOf(field) ==
    CASE field = "PrintBackground" -> "printBackground"
      [] field = "Landscape"       -> "landscape"
      [] field = "Scale"           -> "scale"
      [] field = "PaperWidth"      -> "paperWidth"
      [] field = "PaperHeight"     -> "paperHeight"
      [] field = "MarginTop"       -> "marginTop"
      [] field = "MarginBottom"    -> "marginBottom"
      [] field = "MarginLeft"      -> "marginLeft"
      [] field = "MarginRight"     -> "marginRight"
      [] field = "PageRanges"      -> "pageRanges"
ParamNames == { ParamOf(f) : f \in PointerFields \cup {"PageRanges"} }

\* The values an option may point to: the zero value of its type or
\* another one (floats in hundredths).
PointedValue(field, zero) ==
    IF field \in BoolFields THEN ~zero ELSE IF zero THEN 0 ELSE 90
OptionsWith(S) ==
    { [ f \in PointerFields \cup {"PageRanges"} |->
          IF f = "PageRanges" THEN pr
          ELSE IF f \in S THEN <<PointedValue(f, z[f])>> ELSE <<>> ] :
      z \in [S -> BOOLEAN], pr \in {"", "1-2,4"} }
PrintOptions ==
    UNION { OptionsWith(S) :
            S \in { K \in SUBSET PointerFields : Cardinality(K) <= MaxPresent } }

\* page.PrintToPDF(): every field has the zero value of its type.  The
\* fields are values, not pointers.
PrintToPDF ==
    [ printBackground |-> FALSE, landscape |-> FALSE, scale |-> 0,
      paperWidth |-> 0, paperHeight |-> 0, marginTop |-> 0,
      marginBottom |-> 0, marginLeft |-> 0, marginRight |-> 0,
      pageRanges |-> "" ]

\* print.WithX(v)
With(print, name, v) == [print EXCEPT ![name] = v]

\* The parameters after WithPrintBackground(true) and the overlay of the
\* options that are set.
PrintParams(options) ==
    [ name \in ParamNames |->
        LET field == CHOOSE f \in PointerFields \cup {"PageRanges"} :
                         ParamOf(f) = name
            base == With(PrintToPDF, "printBackground", TRUE)
        IN  IF field = "PageRanges"
            THEN IF options.PageRanges # ""
                 THEN With(base, name, options.PageRanges)[name]
                 ELSE base[name]
            ELSE IF options[field] # <<>>
                 THEN With(base, name, options[field][1])[name]
                 ELSE base[name] ]

\* The zero value of a parameter's type.
IsZero(name, v) ==
    IF name \in {"printBackground", "landscape"} THEN v = FALSE
    ELSE IF name = "pageRanges" THEN v = ""
    ELSE v = 0

\* print.Do encodes the parameters with the JSON tags of the cdproto
\* package, which is not part of this repository: a field is left out when
\* it is tagged omitempty and is zero.  The tag sets drawn: every field
\* omitempty; every field but the margins; no field.
TagSets ==
    { ParamNames,
      ParamNames \ { ParamOf(f) : f \in MarginFields },
      {} }
Encoded(print, tags) ==
    LET names == { n \in ParamNames : ~(n \in tags /\ IsZero(n, print[n])) }
    IN  [ n \in names |-> print[n] ]

NotBuilt == <<>>

InitPrint ==
    /\ poptions \in PrintOptions
    /\ ptags \in TagSets
    /\ pparams = NotBuilt
    /\ psent = NotBuilt

\* The last action of renderPDF's chromedp.Run: the parameters are built
\* and Page.printToPDF is sent.
PrintToPdf ==
    /\ pparams = NotBuilt
    /\ pparams' = PrintParams(poptions)
    /\ psent' = Encoded(PrintParams(poptions), ptags)
    /\ UNCHANGED <<poptions, ptags>>
    /\ UNCHANGED notPrintVars

(***************************************************************************)
(* The render pipeline: renderPDF's action list and waitForBody.           *)
(***************************************************************************)
MaxPolls == 2               \* body polls in one render

InitPipe ==
    /\ qpc = "idle"
    /\ qwait = FALSE
    /\ qctxDone = FALSE
    /\ qsent = <<>>
    /\ qbody = FALSE
    /\ qpolls = 0
    /\ qresult = "none"

\* One CDP call of the pipeline.  With the context done the call fails,
\* before or after its request went out; otherwise it is sent and Chromium
\* answers with a result or an error.  An error ends the action list: the
\* render has failed and only the deferred cleanups remain.
PipeCall(method, next) ==
    \/ /\ qctxDone
       /\ qsent' \in {qsent, Append(qsent, method)}
       /\ qpc' = "cleanup"
       /\ qresult' = "failed"
    \/ /\ ~qctxDone
       /\ qsent' = Append(qsent, method)
       /\ \/ /\ qpc' = next
             /\ qresult' = IF next = "cleanup" THEN "ok" ELSE qresult
          \/ /\ qpc' = "cleanup"
             /\ qresult' = "failed"

\* renderPDF is called, with or without a settle delay.
RenderBegin ==
    /\ qpc = "idle"
    /\ qpc' = "navigate"
    /\ qwait' \in BOOLEAN
    /\ UNCHANGED <<qctxDone, qsent, qbody, qpolls, qresult>>
    /\ UNCHANGED notPipeVars

\* chromedp.Navigate("about:blank")
Navigate ==
    /\ qpc = "navigate"
    /\ PipeCall("Page.navigate", "frametree")
    /\ UNCHANGED <<qwait, qctxDone, qbody, qpolls>>
    /\ UNCHANGED notPipeVars

\* page.GetFrameTree().Do(ctx)
GetFrameTree ==
    /\ qpc = "frametree"
    /\ PipeCall("Page.getFrameTree", "setcontent")
    /\ UNCHANGED <<qwait, qctxDone, qbody, qpolls>>
    /\ UNCHANGED notPipeVars

\* page.SetDocumentContent(frameID, html).Do(ctx)
SetDocumentContent ==
    /\ qpc = "setcontent"
    /\ PipeCall("Page.setDocumentContent", "poll")
    /\ UNCHANGED <<qwait, qctxDone, qbody, qpolls>>
    /\ UNCHANGED notPipeVars

\* waitForBody goes on to the next step only when hasBody answered true.
BodyReady_Always(ready) == TRUE
BodyReady(ready) == ready

\* One turn of waitForBody's loop: hasBody asks for the document and, if
\* it has a root, for the body; an error ends the wait, a body ends it
\* with success, otherwise the loop waits in its select.
PollBody ==
    /\ qpc = "poll"
    /\ qpolls < MaxPolls
    /\ qpolls' = qpolls + 1
    /\ \/ /\ qsent' \in
                 (IF qctxDone THEN {qsent} ELSE {}) \cup
                 { Append(qsent, "DOM.getDocument"),
                   qsent \o <<"DOM.getDocument", "DOM.querySelector">> }
          /\ qpc' = "cleanup"
          /\ qresult' = "failed"
          /\ UNCHANGED qbody
       \/ /\ ~qctxDone
          /\ \E hasRoot \in BOOLEAN, ready \in BOOLEAN :
               /\ qsent' = IF hasRoot
                           THEN qsent \o <<"DOM.getDocument", "DOM.querySelector">>
                           ELSE Append(qsent, "DOM.getDocument")
               /\ LET found == hasRoot /\ ready
                  IN  /\ qbody' = found
                      /\ qpc' = IF BodyReady(found) THEN "settle" ELSE "select"
          /\ UNCHANGED qresult
    /\ UNCHANGED <<qwait, qctxDone>>
    /\ UNCHANGED notPipeVars

\* waitForBody's select: ctx.Done() ends the wait with ctx.Err(), the
\* ticker starts the next poll.
PollSelect ==
    /\ qpc = "select"
    /\ \/ /\ qctxDone
          /\ qpc' = "cleanup"
          /\ qresult' = "failed"
       \/ /\ qpolls < MaxPolls
          /\ qpc' = "poll"
          /\ UNCHANGED qresult
    /\ UNCHANGED <<qwait, qctxDone, qsent, qbody, qpolls>>
    /\ UNCHANGED notPipeVars

\* The settle action: nothing when wait <= 0, else a sleep that the
\* context can end.
Settle ==
    /\ qpc = "settle"
    /\ IF qwait /\ qctxDone
       THEN /\ qpc' = "cleanup"
            /\ qresult' = "failed"
       ELSE /\ qpc' = "print"
            /\ UNCHANGED qresult
    /\ UNCHANGED <<qwait, qctxDone, qsent, qbody, qpolls>>
    /\ UNCHANGED notPipeVars

\* print.Do(ctx): Page.printToPDF
PrintCall ==
    /\ qpc = "print"
    /\ PipeCall("Page.printToPDF", "cleanup")
    /\ UNCHANGED <<qwait, qctxDone, qbody, qpolls>>
    /\ UNCHANGED notPipeVars

\* The deferred cleanups run when renderPDF returns, whatever the result:
\* the tab's target is closed.
Cleanup ==
    /\ qpc = "cleanup"
    /\ qsent' = Append(qsent, "Target.closeTarget")
    /\ qpc' = "done"
    /\ UNCHANGED <<qwait, qctxDone, qbody, qpolls, qresult>>
    /\ UNCHANGED notPipeVars

\* The render's context is cancelled or its deadline passes.
PipeCtxDone ==
    /\ qpc \notin {"idle", "done"}
    /\ ~qctxDone
    /\ qctxDone' = TRUE
    /\ UNCHANGED <<qpc, qwait, qsent, qbody, qpolls, qresult>>
    /\ UNCHANGED notPipeVars

(***************************************************************************)
(* Reading from the byte stream with retries: cdpClient.read around        *)
(* readMessage and readFrame, with bytes arriving piecemeal.               *)
(***************************************************************************)
MaxSends == 2               \* messages the server sends in one behaviour

\* The text messages the server sends, as the payloads of their frames:
\* one frame, or a text frame and a final continuation frame.
StreamMessages == { <<(<<65>>)>>, <<(<<66, 67>>)>>, <<(<<66>>), (<<67>>)>> }

\* The bytes of a message: unmasked frames with 7-bit lengths.
RECURSIVE MessageBytes(_, _)
MessageBytes(frames, first) ==
    IF frames = <<>> THEN <<>>
    ELSE ServerBytes([fin |-> Len(frames) = 1,
                      opcode |-> IF first THEN 1 ELSE 0,
                      masked |-> FALSE, wire |-> "7",
                      payload |-> frames[1]])
         \o MessageBytes(SubSeq(frames, 2, Len(frames)), FALSE)
RECURSIVE Joined(_)
Joined(frames) ==
    IF frames = <<>> THEN <<>>
    ELSE frames[1] \o Joined(SubSeq(frames, 2, Len(frames)))

\* readFrame waits for bytes when those that arrived end before the frame
\* does: its io.ReadFull calls have taken them all out of c.br.
WaitsForBytes(br) == readFrame(br).err = "unexpected EOF"
\* The bytes readFrame takes out of c.br when it returns without waiting.
Consumed(br) ==
    LET len7 == BitAnd(br[2], 127)
        extLen == IF len7 = 126 THEN 2 ELSE IF len7 = 127 THEN 8 ELSE 0
        f == readFrame(br)
    IN  IF f.err = "server websocket frames must not be masked" THEN 2
        ELSE IF f.err # "" THEN 2 + extLen
        ELSE 2 + extLen + Len(f.payload)

\* What readFrame does with the bytes it had read when the deadline
\* passes: the header, ext and payload buffers are locals that are dropped
\* with the error.
AfterTimeout(br) == <<>>

InitStream ==
    /\ bpc = "idle"
    /\ bflight = <<>>
    /\ bstream = <<>>
    /\ bmessage = <<>>
    /\ bcollecting = FALSE
    /\ bsent = <<>>
    /\ bgot = <<>>
    /\ berr = ""

\* The server sends a complete text message.
ServerSend ==
    /\ Len(bsent) < MaxSends
    /\ \E m \in StreamMessages :
         /\ bflight' = bflight \o MessageBytes(m, TRUE)
         /\ bsent' = Append(bsent, Joined(m))
    /\ UNCHANGED <<bpc, bstream, bmessage, bcollecting, bgot, berr>>
    /\ UNCHANGED notStreamVars

\* Some of the bytes in flight arrive.
BytesArrive ==
    /\ bflight # <<>>
    /\ \E n \in 1..Len(bflight) :
         /\ bstream' = bstream \o SubSeq(bflight, 1, n)
         /\ bflight' = SubSeq(bflight, n + 1, Len(bflight))
    /\ UNCHANGED <<bpc, bmessage, bcollecting, bsent, bgot, berr>>
    /\ UNCHANGED notStreamVars

\* read is called with a live context: it sets the read deadline and
\* calls readMessage, which starts with an empty message.
StreamRead ==
    /\ bpc = "idle"
    /\ bpc' = "reading"
    /\ bmessage' = <<>>
    /\ bcollecting' = FALSE
    /\ UNCHANGED <<bflight, bstream, bsent, bgot, berr>>
    /\ UNCHANGED notStreamVars

\* One turn of readMessage's loop on a frame that has arrived whole (or on
\* bytes readFrame rejects): readFrame takes the frame out of c.br and the
\* switch on the opcode runs; readMessage returns the message or an error,
\* which read returns, or goes on to the next frame.
StreamFrame ==
    /\ bpc = "reading"
    /\ ~WaitsForBytes(bstream)
    /\ LET f == readFrame(bstream)
           t == readMessageTurn(bmessage, bcollecting, f, <<0, 0, 0, 0>>, TRUE)
       IN  /\ bstream' = SubSeq(bstream, Consumed(bstream) + 1, Len(bstream))
           /\ bmessage' = t.message
           /\ bcollecting' = t.collecting
           /\ bpc' = IF ~t.done THEN "reading"
                     ELSE IF t.err = "" THEN "idle" ELSE "failed"
           /\ bgot' = IF t.done /\ t.err = "" THEN Append(bgot, t.msg) ELSE bgot
           /\ berr' = IF t.done THEN t.err ELSE berr
    /\ UNCHANGED <<bflight, bsent>>
    /\ UNCHANGED notStreamVars

\* The read deadline passes while readFrame waits for the rest of a
\* frame: readFrame and readMessage return the timeout, and read, whose
\* context is live, sets a new deadline and calls readMessage again.
StreamTimeout ==
    /\ bpc = "reading"
    /\ WaitsForBytes(bstream)
    /\ bstream' = AfterTimeout(bstream)
    /\ bmessage' = <<>>
    /\ bcollecting' = FALSE
    /\ UNCHANGED <<bpc, bflight, bsent, bgot, berr>>
    /\ UNCHANGED notStreamVars

(***************************************************************************)
(* Specifications.                                                         *)
(***************************************************************************)
\* A subsystem that takes no part in a specification stays as constructed.
IdleCDP == InitCDP
IdleOptions == query = << >> /\ parsed = NotParsed
IdleHTTP ==
    /\ request = [method |-> "POST", body |-> "", readEnd |-> "EOF",
                  query |-> << >>, wait |-> 0]
    /\ response = NoResponse
    /\ invoked = <<>>
    /\ resolved = NotCalled
    /\ rendered = NotCalled
    /\ rendererArgs = <<>>
    /\ logged = <<>>

IdleResolver ==
    /\ ws = ""
    /\ cachedWS = ""
    /\ cachedAt = 0
    /\ now = cacheTTL
    /\ ticks = 0
    /\ rpc = [p \in Resolvers |-> "idle"]
    /\ rmiss = [p \in Resolvers |-> NoMiss]
    /\ rret = NoReturn
    /\ rgets = [p \in Resolvers |-> 0]

IdleHealth ==
    /\ hrequest = [method |-> "GET", hasChecker |-> TRUE, checkErr |-> "",
                   ws |-> [url |-> "", err |-> "no chrome"]]
    /\ hresponse = NoResponse
    /\ hinvoked = <<>>

IdleSession == InitSession
IdleCancel == InitCancel
IdleRead == InitRead
IdlePipe == InitPipe
IdleStream == InitStream
IdlePrint ==
    /\ poptions = EmptyOptions
    /\ ptags = {}
    /\ pparams = NotBuilt
    /\ psent = NotBuilt
IdleDial ==
    /\ din = [scheme |-> "ws", hasDeadline |-> FALSE, fail |-> "none",
              key |-> "", status |-> 0, connection |-> <<>>,
              upgrade |-> <<>>, accept |-> ""]
    /\ dtcp = "none"
    /\ dret = NoDial
IdleFrame ==
    /\ fpayload = <<>>
    /\ fkey = <<0, 0, 0, 0>>
    /\ fop = "none"
    /\ fframe = <<>>
    /\ ferr = ""

Init ==
    /\ InitCDP /\ IdleOptions /\ IdleHTTP /\ IdleResolver /\ IdleHealth
    /\ IdleSession /\ IdleCancel /\ IdleFrame
    /\ IdleRead
    /\ IdleDial
    /\ IdlePrint
    /\ IdlePipe
    /\ IdleStream

Next ==
    \E p \in Callers :
        \/ CallInvoke(p)
        \/ CallLock(p)
        \/ CallMarshalFail(p)
        \/ CallWrite(p)
        \/ CallReadEnter(p)
        \/ CallReadMessage(p)
        \/ CallReadGarbage(p)
        \/ CallReadError(p)
        \/ CtxCancel(p)

Spec == Init /\ [][Next]_vars

InitOptionsSpec ==
    /\ IdleCDP /\ InitOptions /\ IdleHTTP /\ IdleResolver /\ IdleHealth
    /\ IdleSession /\ IdleCancel /\ IdleFrame
    /\ IdleRead
    /\ IdleDial
    /\ IdlePrint
    /\ IdlePipe
    /\ IdleStream
NextOptions == ParseQuery
SpecOptions == InitOptionsSpec /\ [][NextOptions]_vars

InitHTTPSpec ==
    /\ IdleCDP /\ IdleOptions /\ InitHTTP /\ IdleResolver /\ IdleHealth
    /\ IdleSession /\ IdleCancel /\ IdleFrame
    /\ IdleRead
    /\ IdleDial
    /\ IdlePrint
    /\ IdlePipe
    /\ IdleStream
NextHTTP == ServePDF
SpecHTTP == InitHTTPSpec /\ [][NextHTTP]_vars

InitResolverSpec ==
    /\ IdleCDP /\ IdleOptions /\ IdleHTTP /\ InitResolver /\ IdleHealth
    /\ IdleSession /\ IdleCancel /\ IdleFrame
    /\ IdleRead
    /\ IdleDial
    /\ IdlePrint
    /\ IdlePipe
    /\ IdleStream
NextResolver ==
    \/ \E p \in Resolvers :
          \/ WsURL(p)
          \/ WsURLDiscovered(p)
          \/ CheckChrome(p)
          \/ CheckChromeProbed(p)
    \/ Tick
SpecResolver == InitResolverSpec /\ [][NextResolver]_vars

InitHealthSpec ==
    /\ IdleCDP /\ IdleOptions /\ IdleHTTP /\ IdleResolver /\ InitHealth
    /\ IdleSession /\ IdleCancel /\ IdleFrame
    /\ IdleRead
    /\ IdleDial
    /\ IdlePrint
    /\ IdlePipe
    /\ IdleStream
NextHealth == ServeHealth
SpecHealth == InitHealthSpec /\ [][NextHealth]_vars

InitSessionSpec ==
    /\ IdleCDP /\ IdleOptions /\ IdleHTTP /\ IdleResolver /\ IdleHealth
    /\ InitSession /\ IdleCancel /\ IdleFrame
    /\ IdleRead
    /\ IdleDial
    /\ IdlePrint
    /\ IdlePipe
    /\ IdleStream
NextSession ==
    \/ RenderStart
    \/ CreateTarget
    \/ AttachToTarget
    \/ RenderCalls
    \/ DeferredCloseTarget
    \/ RenderCtxDone
SpecSession == InitSessionSpec /\ [][NextSession]_vars

InitCancelSpec ==
    /\ IdleCDP /\ IdleOptions /\ IdleHTTP /\ IdleResolver /\ IdleHealth
    /\ IdleSession /\ InitCancel /\ IdleFrame
    /\ IdleRead
    /\ IdleDial
    /\ IdlePrint
    /\ IdlePipe
    /\ IdleStream
NextCancel ==
    \/ KStart
    \/ KWrite
    \/ KWriteCompletes
    \/ KWriteTimeout
    \/ KWriteFails
    \/ KRead
    \/ KMessage
    \/ KReadTimeout
    \/ KReadFails
    \/ KSelect
    \/ KWriteClosed
    \/ KReadClosed
    \/ KClose
    \/ KCancel
    \/ KDeadlinePasses
    \/ KStaleDeadlinePasses
\* The goroutine takes its next step, timers fire and deadlines pass; the
\* peer need not read what is written nor send anything, and nobody has
\* to cancel.
FairCancel ==
    /\ WF_vars(KWrite)
    /\ WF_vars(KWriteTimeout)
    /\ WF_vars(KWriteClosed)
    /\ WF_vars(KReadClosed)
    /\ WF_vars(KRead)
    /\ WF_vars(KReadTimeout)
    /\ WF_vars(KSelect)
    /\ WF_vars(KDeadlinePasses)
    /\ WF_vars(KStaleDeadlinePasses)
SpecCancel == InitCancelSpec /\ [][NextCancel]_vars /\ FairCancel

(***************************************************************************)
(* Claims about cdpClient.Call, checked under Spec.                        *)
(***************************************************************************)
\* A goroutine is inside Call's critical section.
InFlight(p) == pc[p] \in {"marshal", "read", "blocked"}
SentIds == { sent[i] : i \in 1..Len(sent) }

\* C1: Call returns success only on a received response whose id equals the
\* id of the request this Call wrote; a message with id 0 or with another
\* id never decides the return value and never populates out (while the
\* last thing a Call did was to discard a message, the Call is still in
\* flight and out is what it was).
C1_ReturnOnlyOnMatchingId ==
    /\ (lastEvent.type = "return" /\ lastEvent.ret.kind = "nil") =>
           /\ lastEvent.msg # <<>>
           /\ lastEvent.id \in SentIds
    /\ (lastEvent.type = "return" /\ lastEvent.msg # <<>>) =>
           /\ lastEvent.msg[1].id = lastEvent.id
           /\ lastEvent.msg[1].id # 0
    /\ (lastEvent.type = "return" /\ lastEvent.msg = <<>>) =>
           out[lastEvent.by] = lastEvent.outBefore
    /\ lastEvent.type = "discard" =>
           /\ lastEvent.msgId = 0 \/ lastEvent.msgId # lastEvent.id
           /\ InFlight(lastEvent.by)
           /\ callId[lastEvent.by] = lastEvent.id
           /\ out[lastEvent.by] = lastEvent.outBefore

\* C1 witness: a Call returned success on its own response right after it
\* had discarded another message.
C1_Witness ==
    /\ lastEvent.type = "return"
    /\ lastEvent.ret.kind = "nil"
    /\ lastEvent.afterDiscard
    /\ lastEvent.msg # <<>>
    /\ lastEvent.id = 2

\* C2: the ids assigned are never zero, pairwise distinct and strictly
\* increasing in the order the requests are written, whether or not the
\* calls they were assigned to failed.
C2_IdsUniqueIncreasing ==
    /\ \A i \in 1..Len(sent) : sent[i] > 0
    /\ \A i, j \in 1..Len(sent) : i < j => sent[i] < sent[j]
    /\ \A p \in Callers : InFlight(p) =>
           /\ callId[p] > 0
           /\ callId[p] \notin returned
           /\ \A q \in Callers : (q # p /\ InFlight(q)) => callId[q] # callId[p]
           /\ pc[p] = "marshal" => \A i \in 1..Len(sent) : sent[i] < callId[p]
           /\ pc[p] # "marshal" => callId[p] \in SentIds

\* C2 witness: a call failed before its request was written, and the
\* requests written around it carry ids 1 and 3.
C2_Witness ==
    /\ sent = <<1, 3>>
    /\ 2 \in returned

\* C3: at most one call is in flight: while one Call is between writing its
\* request and returning, no other goroutine is inside Call's critical
\* section (it can neither write a request nor read a message), and the
\* one that is holds the mutex.
C3_OneCallInFlight ==
    \A p \in Callers : InFlight(p) =>
        /\ mu = p
        /\ \A q \in Callers : q # p => ~InFlight(q)

\* C3 witness: one goroutine waits for its response while the other has
\* called Call and waits at the mutex.
C3_Witness ==
    \E p, q \in Callers : pc[p] = "blocked" /\ pc[q] = "lock"

\* C4 as claimed: request n+1 is never sent before the response to request n
\* has been received, whatever the outcome of call n.
C4_NextOnlyAfterResponse ==
    \A n \in SentIds : (n + 1) \in SentIds => n \in responded

\* C4 as amended: request n+1 is never sent before Call n has returned.
\* Call n has consumed its response when it returned success, a CDP error or
\* a result decoding error, and has not when it returned a cancellation,
\* timeout, read or parse error.
C4_NextOnlyAfterReturn ==
    /\ \A i \in 1..Len(sent) : i < Len(sent) => sent[i] \in returned
    /\ lastEvent.type = "return" =>
           (lastEvent.id \in responded
                <=> lastEvent.ret.kind \in {"nil", "cdp", "unmarshal"})

\* C4 witness: call 1 was abandoned on a done context without its response,
\* and request 2 has been written.
C4_Witness ==
    /\ sent = <<1, 2>>
    /\ 1 \in returned
    /\ 1 \notin responded

\* C5: a matching response with an error object makes Call fail with that
\* error's code and message and leaves out as it was, even when the
\* response also has a result; without an error object, out is populated
\* from result exactly when out was provided and result is non-empty.
C5_ErrorBeforeResult ==
    (lastEvent.type = "return" /\ lastEvent.msg # <<>>) =>
        LET m == lastEvent.msg[1]
            o == out[lastEvent.by]
        IN  IF m.error # <<>>
            THEN /\ lastEvent.ret.kind = "cdp"
                 /\ lastEvent.ret.code = m.error[1].code
                 /\ lastEvent.ret.message = m.error[1].message
                 /\ o = lastEvent.outBefore
            ELSE IF lastEvent.outArg /\ m.result # ""
            THEN /\ m.result = "{\"v\":1}" => (o = 1 /\ lastEvent.ret.kind = "nil")
                 /\ m.result = "{\"v\":2}" => (o = 2 /\ lastEvent.ret.kind = "nil")
                 /\ m.result = "{\"v\":\"x\"}" =>
                        (o = lastEvent.outBefore /\ lastEvent.ret.kind = "unmarshal")
            ELSE /\ o = lastEvent.outBefore
                 /\ lastEvent.ret.kind = "nil"

\* C5 witness: a response carrying both an error object and a result, for a
\* Call that was given a result pointer holding an earlier value.
C5_Witness ==
    /\ lastEvent.type = "return"
    /\ lastEvent.msg # <<>>
    /\ lastEvent.msg[1].error # <<>>
    /\ lastEvent.msg[1].result = "{\"v\":2}"
    /\ lastEvent.outArg
    /\ lastEvent.outBefore = 1
    /\ out[lastEvent.by] = 1

(***************************************************************************)
(* Claims about pdfHandler, checked under SpecHTTP.                        *)
(***************************************************************************)
Served == response # NoResponse
BodyTooLarge == Len(request.body) > MaxBodyBytes
\* Some converted key of the query has a first value that does not convert.
Unparseable(q) ==
    \E i \in 1..Len(ParsedKeys) :
        LET key == ParsedKeys[i]
            v == IF key \in DOMAIN q /\ q[key] # <<>> THEN q[key][1] ELSE ""
        IN  /\ v # ""
            /\ IF key \in BoolKeys THEN ParseBool(v).err ELSE ParseFloat(v).err
NoCollaboratorCalled ==
    resolved = NotCalled /\ rendered = NotCalled /\ rendererArgs = <<>>

\* C6: the handler checks method, body read, empty body, options, resolver
\* and renderer in that order; the first failing check alone sets the
\* status (405, 413 or 400, 400, 400, 503, 500) and no later stage runs.
C6_FirstFailingCheckDecides ==
    Served =>
        IF request.method # "POST"
        THEN /\ response.status = 405 /\ response.body = ""
             /\ invoked = <<>> /\ NoCollaboratorCalled
        ELSE IF BodyTooLarge
        THEN /\ response.status = 413
             /\ invoked = <<"read">> /\ NoCollaboratorCalled
        ELSE IF request.readEnd # "EOF"
        THEN /\ response.status = 400
             /\ invoked = <<"read">> /\ NoCollaboratorCalled
        ELSE IF request.body = ""
        THEN /\ response.status = 400
             /\ invoked = <<"read">> /\ NoCollaboratorCalled
        ELSE IF Unparseable(request.query)
        THEN /\ response.status = 400
             /\ invoked = <<"read", "parse">> /\ NoCollaboratorCalled
        ELSE IF resolved.called /\ resolved.answer.err # ""
        THEN /\ response.status = 503
             /\ invoked = <<"read", "parse", "resolve">>
             /\ rendered = NotCalled /\ rendererArgs = <<>>
        ELSE /\ resolved.called /\ rendered.called
             /\ invoked = <<"read", "parse", "resolve", "render">>
             /\ response.status = IF rendered.answer.err # "" THEN 500 ELSE 200

\* C6 witness: a POST whose body exceeds the cap, whose read would also
\* fail and whose query does not parse is answered 413 after the read.
C6_Witness ==
    /\ Served
    /\ request.method = "POST"
    /\ BodyTooLarge
    /\ request.readEnd = "unexpected EOF"
    /\ request.query = [scale |-> <<"oops">>]
    /\ response.status = 413
    /\ invoked = <<"read">>

\* C7: a POST with a non-empty body within the cap and parseable options,
\* a resolver URL and renderer bytes gets status 200, exactly those bytes,
\* the four headers, and the renderer is given the resolver's URL, the body
\* as HTML and the parsed options.
C7_SuccessResponse ==
    ( /\ Served
      /\ request.method = "POST"
      /\ ~BodyTooLarge /\ request.readEnd = "EOF" /\ request.body # ""
      /\ ~Unparseable(request.query)
      /\ resolved.called /\ resolved.answer.err = ""
      /\ rendered.called /\ rendered.answer.err = "" ) =>
        /\ response.status = 200
        /\ response.body = rendered.answer.pdf
        /\ response.header["Content-Type"] = "application/pdf"
        /\ response.header["Content-Disposition"] = "inline; filename=\"document.pdf\""
        /\ response.header["X-Content-Type-Options"] = "nosniff"
        /\ response.header["Cache-Control"] = "no-store"
        /\ Len(rendererArgs) = 1
        /\ rendererArgs[1].wsURL = resolved.answer.url
        /\ rendererArgs[1].html = request.body
        /\ rendererArgs[1].options = parsePDFOptions(request.query).options
        /\ request.query = [landscape |-> <<"true">>] =>
               rendererArgs[1].options = [EmptyOptions EXCEPT !.Landscape = <<TRUE>>]
        /\ request.query = << >> => rendererArgs[1].options = EmptyOptions

\* C7 witness: landscape=true, a body of exactly the cap, a PDF answered.
C7_Witness ==
    /\ Served
    /\ response.status = 200
    /\ request.query = [landscape |-> <<"true">>]
    /\ Len(request.body) = MaxBodyBytes
    /\ response.body = "%PDF-1.7"
    /\ rendererArgs[1].options.Landscape = <<TRUE>>

\* C8: the text of a resolver or renderer error never reaches the client:
\* the response is the fixed 503 "chrome unavailable" or 500 "render
\* failed", identical for any two errors that differ only in their
\* message; the full error goes to the log.
C8_NoChromiumTextToClient ==
    /\ (Served /\ resolved.called /\ resolved.answer.err # "") =>
           /\ response.status = 503
           /\ response.body = "chrome unavailable\n"
           /\ logged = << "chrome ws error: " \o resolved.answer.err >>
    /\ (Served /\ rendered.called /\ rendered.answer.err # "") =>
           /\ response.status = 500
           /\ response.body = "render failed\n"
           /\ logged = << "render error: " \o rendered.answer.err >>
    /\ \A a1, a2 \in { a \in ResolverAnswers : a.err # "" } :
         \A r \in RendererAnswers :
           pdfHandler(request, a1, r).response = pdfHandler(request, a2, r).response
    /\ \A a \in { a \in ResolverAnswers : a.err = "" } :
         \A r1, r2 \in { r \in RendererAnswers : r.err # "" } :
           pdfHandler(request, a, r1).response = pdfHandler(request, a, r2).response

\* C8 witness: the resolver failed with Chromium's status line.
C8_Witness ==
    /\ Served
    /\ resolved.called
    /\ resolved.answer.err = "unexpected chrome status: 502 Bad Gateway"
    /\ response.body = "chrome unavailable\n"

(***************************************************************************)
(* Claims about parsePDFOptions, checked under SpecOptions.                *)
(***************************************************************************)
\* The first value of a key, "" when the key has none.
FirstValue(q, key) == IF key \in DOMAIN q /\ q[key] # <<>> THEN q[key][1] ELSE ""

\* C9: parsePDFOptions either returns, without error, options in which each
\* present field holds its parsed value and each absent field is unset, or
\* fails with "invalid <field>"; an error is never accompanied by options
\* with some fields already populated.
C9_NoPartialSuccess ==
    parsed.called =>
        IF parsed.err = ""
        THEN /\ \A i \in 1..Len(ParsedKeys) :
                  LET key == ParsedKeys[i]
                      v == FirstValue(query, key)
                      f == parsed.options[FieldOf(key)]
                  IN  IF v = "" THEN f = <<>>
                      ELSE /\ f # <<>>
                           /\ v = "true" => f = <<TRUE>>
                           /\ v = "0" => f = <<FALSE>>
                           /\ v \in {"0.9", ".9"} => f = <<90>>
                           /\ v = "8.27" => f = <<827>>
                           /\ v = "1" => f = <<100>>
             /\ parsed.options.PageRanges = FirstValue(query, "page_ranges")
        ELSE /\ \E i \in 1..Len(ParsedKeys) : parsed.err = "invalid " \o ParsedKeys[i]
             /\ parsed.options = EmptyOptions

\* C40 as stated: while a Call waits for its response, every message
\* that is not a JSON response object makes the Call return the parse
\* error; none is skipped like an event.
C40_NonObjectFailsCall ==
    [][ \A p \in Callers :
          CallReadGarbage(p) =>
              /\ pc'[p] = "idle"
              /\ lastEvent'.type = "return" /\ lastEvent'.by = p
              /\ lastEvent'.ret.kind = "parse"
      ]_vars

\* C40, amended: a message json.Unmarshal rejects (an empty message, text
\* that is not JSON, a JSON value that is not an object) makes the waiting
\* Call return the parse error and release the mutex, although the message
\* is unrelated to the call's id; the JSON text null is not rejected and is
\* skipped like an event, the Call going on to read.
C40_RejectedTextFailsCall ==
    [][ \A p \in Callers :
          /\ (CallReadGarbage(p) /\ lastEvent'.text # "null") =>
                 /\ pc'[p] = "idle"
                 /\ mu' = NoHolder
                 /\ lastEvent'.type = "return" /\ lastEvent'.by = p
                 /\ lastEvent'.ret.kind = "parse"
                 /\ lastEvent'.msg = <<>>
          /\ (CallReadGarbage(p) /\ lastEvent'.text = "null") =>
                 /\ pc'[p] = "read"
                 /\ lastEvent'.type = "discard" /\ lastEvent'.by = p
                 /\ mu' = mu
      ]_vars

\* A Call that had skipped an event then read an empty message and
\* returned the parse error.
C40_Witness ==
    /\ lastEvent.text = ""
    /\ lastEvent.type = "return" /\ lastEvent.ret.kind = "parse"
    /\ lastEvent.afterDiscard
    /\ lastEvent.id > 0

(***************************************************************************)
(* Claims about the resolver's cache, checked under SpecResolver.          *)
(***************************************************************************)
\* C10: wsURL returns a cached URL only when a URL is cached and its age,
\* now - cachedAt, is strictly less than the TTL of 60 s; a wsURL call goes
\* to discovery only when nothing is cached or the entry is at least 60 s
\* old, so an entry of age exactly 60 s is rediscovered.
C10_CachedOnlyWhenYoungerThanTTL ==
    /\ rret.via = "cache" =>
           /\ rret.op = "wsURL"
           /\ rret.cachedWS # ""
           /\ rret.url = rret.cachedWS
           /\ rret.err = ""
           /\ rret.age >= 0 /\ rret.age < 60
    /\ \A p \in Resolvers :
           rpc[p] = "wsURL" => (rmiss[p].cachedWS = "" \/ rmiss[p].age >= 60)

\* C10 witness: a wsURL call found an entry exactly 60 s old and is
\* rediscovering, after another call was served from the cache 59 s in.
C10_Witness ==
    \E p \in Resolvers :
        /\ rpc[p] = "wsURL"
        /\ rmiss[p].cachedWS # ""
        /\ rmiss[p].age = 60
        /\ rret.via = "cache"
        /\ rret.age = 59

\* The cache holds an entry younger than the TTL.
FreshEntry == cachedWS # "" /\ now - cachedAt < 60

\* C11: without an override, a wsURL call made while the entry of the last
\* successful discovery is younger than the TTL returns that entry's URL
\* at once, issues no GET /json/version and leaves the entry as it is; two
\* such calls in a row return the same value.
C11_FreshCallsServedFromCache ==
    [][ \A p \in Resolvers :
          /\ (WsURL(p) /\ ws = "" /\ FreshEntry) =>
                 /\ rret'.by = p /\ rret'.op = "wsURL"
                 /\ rret'.url = cachedWS /\ rret'.err = ""
                 /\ rpc'[p] = "idle"
                 /\ rgets'[p] = 0
                 /\ UNCHANGED <<cachedWS, cachedAt>>
          /\ (WsURL(p) /\ ws = "" /\ FreshEntry /\ rret.via = "cache"
                 /\ rret.age <= now - cachedAt) =>
                 rret'.url = rret.url
      ]_vars

\* C11 witness: two goroutines in a row were served the discovered URL
\* from the cache, the second 59 s after the discovery.
C11_Witness ==
    /\ ws = ""
    /\ rret.via = "cache" /\ rret.by = "h2" /\ rret.age = 59
    /\ rret.url = "ws://chrome:9222/devtools/browser/b"
    /\ rgets = [p \in Resolvers |-> 0]
    /\ rpc = [p \in Resolvers |-> "idle"]

\* The cache holds an entry as old as the TTL or older.
ExpiredEntry == cachedWS # "" /\ now - cachedAt >= 60

\* C12: a wsURL call that finds the entry expired issues exactly one GET
\* /json/version; when the discovery succeeds the discovered URL is stored
\* with the time of the store as its timestamp and returned, so the entry
\* is younger than the TTL again.
C12_ExpiredCallRediscoversOnce ==
    [][ \A p \in Resolvers :
          /\ (WsURL(p) /\ ws = "" /\ ExpiredEntry) =>
                 /\ rpc'[p] = "wsURL"
                 /\ rgets'[p] = 1
                 /\ UNCHANGED <<cachedWS, cachedAt, rret>>
          /\ WsURLDiscovered(p) =>
                 /\ rgets[p] = 1 /\ rgets'[p] = 1
                 /\ rpc'[p] = "idle"
                 /\ rret'.by = p /\ rret'.op = "wsURL"
                 /\ rret'.err = "" =>
                        /\ rret'.url # ""
                        /\ cachedWS' = rret'.url
                        /\ cachedAt' = now
                        /\ FreshEntry'
      ]_vars

\* C12 witness: an entry 60 s old was found, rediscovery succeeded with a
\* different URL, and the cache now holds it stamped with the present time.
C12_Witness ==
    /\ rret.via = "discovery" /\ rret.op = "wsURL" /\ rret.err = ""
    /\ rret.url = "ws://chrome:9222/devtools/browser/b"
    /\ cachedWS = rret.url
    /\ cachedAt = now
    /\ rret.cachedWS = "ws://chrome:9222/devtools/browser/a"
    /\ rret.age = 60
    /\ rgets[rret.by] = 1

\* A response of /json/version on which discovery must fail.
FailedDiscovery(resp) ==
    \/ resp.doErr # ""
    \/ resp.status # 200
    \/ ~resp.decodes
    \/ resp.url = ""

\* C13: a network error, a status other than 200, an undecodable body and
\* an empty webSocketDebuggerUrl each make discovery fail; when discovery
\* fails in wsURL or checkChrome the call returns the error and no URL,
\* not even the expired one, and the cached URL and timestamp stay as
\* they were.
C13_FailedDiscoveryKeepsCache ==
    [][ /\ \A resp \in VersionResponses :
             FailedDiscovery(resp) <=> Discover(resp).err # ""
        /\ \A p \in Resolvers :
             ((WsURLDiscovered(p) \/ CheckChromeProbed(p)) /\ rret'.err # "") =>
                 /\ rret'.by = p
                 /\ rret'.url = ""
                 /\ UNCHANGED <<cachedWS, cachedAt>>
        /\ \A p \in Resolvers :
             ((WsURLDiscovered(p) \/ CheckChromeProbed(p)) /\ cachedWS' = "") =>
                 /\ cachedWS = ""
                 /\ rret'.err # ""
      ]_vars

\* C13 witness: wsURL found an expired entry, Chrome answered without a
\* webSocketDebuggerUrl, and the expired entry is still in the cache.
C13_Witness ==
    /\ rret.op = "wsURL" /\ rret.via = "discovery"
    /\ rret.err = "missing websocket debugger url"
    /\ rret.url = ""
    /\ rret.cachedWS = "ws://chrome:9222/devtools/browser/a"
    /\ rret.age >= 60
    /\ cachedWS = rret.cachedWS
    /\ now - cachedAt >= 60

\* The URLs a successful discovery can yield.
DiscoveredURLs ==
    { Discover(resp).url : resp \in { r \in VersionResponses : Discover(r).err = "" } }

\* C34: without an override every checkChrome call issues its GET
\* /json/version and returns nothing before the response, whether the
\* cache is empty, fresh or expired; a response without a
\* webSocketDebuggerUrl is an error; when the call returns success the
\* cache holds a discovered, non-empty URL stamped with the present time,
\* and when it returns an error the cache is as it was.
C34_CheckChromeAlwaysProbes ==
    [][ /\ Discover([doErr |-> "", status |-> 200, decodes |-> TRUE,
                     url |-> ""]).err = "missing websocket debugger url"
        /\ \A p \in Resolvers :
             /\ (CheckChrome(p) /\ ws = "") =>
                    /\ rpc'[p] = "checkChrome"
                    /\ rgets'[p] = 1
                    /\ UNCHANGED <<rret, cachedWS, cachedAt>>
             /\ CheckChromeProbed(p) =>
                    /\ rret'.by = p /\ rret'.op = "checkChrome"
                    /\ rret'.via = "discovery"
                    /\ rret'.err = "" =>
                           /\ cachedWS' \in DiscoveredURLs
                           /\ cachedWS' # ""
                           /\ cachedAt' = now
                    /\ rret'.err # "" => UNCHANGED <<cachedWS, cachedAt>>
      ]_vars

\* A checkChrome call is waiting for its response while the cache entry
\* is younger than the TTL, right after another checkChrome call
\* succeeded and stamped the cache with the present time.
C34_Witness ==
    /\ ws = ""
    /\ rret.op = "checkChrome" /\ rret.via = "discovery" /\ rret.err = ""
    /\ cachedWS # "" /\ cachedAt = now
    /\ \E p \in Resolvers :
         /\ rpc[p] = "checkChrome" /\ rgets[p] = 1
         /\ FreshEntry

\* C39: under every interleaving of wsURL and checkChrome calls of two
\* goroutines the cached URL and its timestamp change only together, in a
\* store made by a successful discovery, to the discovered URL and the
\* present time; the timestamp never decreases and a cached URL is never
\* reset to empty; the store of a wsURL call leaves its own URL in the
\* cache, whatever was stored before (the last store wins); and every
\* caller that found the cache expired has its own GET /json/version
\* under way.
C39_CacheUpdatedTogether ==
    [][ /\ cachedAt' >= cachedAt
        /\ cachedWS # "" => cachedWS' # ""
        /\ (cachedWS' # cachedWS \/ cachedAt' # cachedAt) =>
               /\ cachedWS' \in DiscoveredURLs
               /\ cachedAt' = now
               /\ \E p \in Resolvers :
                      WsURLDiscovered(p) \/ CheckChromeProbed(p)
        /\ \A p \in Resolvers :
               (WsURLDiscovered(p) /\ rret'.err = "") =>
                   (cachedWS' = rret'.url /\ cachedAt' = now)
        /\ \A p \in Resolvers :
               rpc'[p] \in {"wsURL", "checkChrome"} => rgets'[p] = 1
      ]_vars

\* Both goroutines found the same entry expired and each has its own
\* discovery under way.
C39_Witness ==
    /\ cachedWS # ""
    /\ \A p \in Resolvers :
         /\ rpc[p] = "wsURL"
         /\ rmiss[p].cachedWS = cachedWS
         /\ rmiss[p].age >= 60
         /\ rgets[p] = 1

\* C14: with an override configured, every wsURL call returns the
\* override at once and without error, issues no GET /json/version and
\* neither consults nor changes the cache; checkChrome with an override
\* issues no GET /json/version and leaves the cache unchanged as well, so
\* the cache stays as constructed.
C14_OverrideBypassesCache ==
    [][ ws # "" =>
          /\ cachedWS = "" /\ cachedAt = 0
          /\ \A p \in Resolvers :
               /\ WsURL(p) =>
                    /\ rret' = [by |-> p, op |-> "wsURL", url |-> ws, err |-> "",
                                via |-> "override", cachedWS |-> "", age |-> 0]
                    /\ rpc'[p] = "idle"
                    /\ rgets'[p] = 0
                    /\ UNCHANGED <<cachedWS, cachedAt, rmiss>>
               /\ CheckChrome(p) =>
                    /\ rret'.by = p /\ rret'.via = "cdp" /\ rret'.url = ""
                    /\ rpc'[p] = "idle"
                    /\ rgets'[p] = 0
                    /\ UNCHANGED <<cachedWS, cachedAt, rmiss>>
               /\ ~WsURLDiscovered(p) /\ ~CheckChromeProbed(p)
      ]_vars

\* C14 witness: with the override set and the clock advanced by the TTL or
\* more, a wsURL call returned the override and the cache is still empty.
C14_Witness ==
    /\ ws = "ws://override:9222/devtools/browser/o"
    /\ now >= cacheTTL + 60
    /\ rret.op = "wsURL" /\ rret.via = "override" /\ rret.url = ws
    /\ cachedWS = ""
    /\ rgets = [p \in Resolvers |-> 0]

(***************************************************************************)
(* Claims about healthHandler, checked under SpecHealth.                   *)
(***************************************************************************)
HealthServed == hresponse # NoResponse

\* C15: /healthz calls checkChrome, and only it, when the resolver has that
\* method, and wsURL otherwise; the response is 200 with body "ok" exactly
\* when the method called succeeded and 503 when it failed, so with
\* checkChrome available a URL that wsURL would return does not make the
\* response 200.
C15_HealthFollowsCheck ==
    HealthServed =>
        /\ hresponse.status \in {200, 503}
        /\ hresponse.status = 200 <=> hresponse.body = "ok"
        /\ hresponse.status = 503 => hresponse.body = "chrome unavailable\n"
        /\ IF hrequest.hasChecker
           THEN /\ hinvoked = <<"checkChrome">>
                /\ hresponse.status = 200 <=> hrequest.checkErr = ""
           ELSE /\ hinvoked = <<"wsURL">>
                /\ hresponse.status = 200 <=> hrequest.ws.err = ""

\* C15 witness: checkChrome failed while wsURL would have returned a URL;
\* the GET was answered 503.
C15_Witness ==
    /\ HealthServed
    /\ hrequest.method = "GET"
    /\ hrequest.hasChecker
    /\ hrequest.checkErr = "dial tcp: connection refused"
    /\ hrequest.ws.err = "" /\ hrequest.ws.url # ""
    /\ hresponse.status = 503

(***************************************************************************)
(* Claims about the rendering session, checked under SpecSession.          *)
(***************************************************************************)
ClosedIds == { sclosed[i] : i \in 1..Len(sclosed) }

\* C16: Target.closeTarget is never called with an empty id and at most
\* once with the id of a created target, and when a render has ended, on
\* whatever path, every target created for it has been given to
\* Target.closeTarget, also when Target.attachToTarget failed or returned
\* no session id after the target was created.
C16_CreatedTargetsClosed ==
    /\ \A i \in 1..Len(sclosed) : sclosed[i] # ""
    /\ \A i, j \in 1..Len(sclosed) : sclosed[i] = sclosed[j] => i = j
    /\ spc \in {"done", "failed"} => stargets \subseteq ClosedIds

\* The errors with which openTargetSession itself fails, apart from the
\* context's.
SessionErrors ==
    { "cdp target id missing", "cdp session id missing",
      CallError(FALSE, "Target.createTarget"),
      CallError(FALSE, "Target.attachToTarget") }

\* C36: Target.attachToTarget is sent only after Target.createTarget
\* returned a target id, and with that id: never with an empty one; the
\* render holds a session id and a target id only together, both
\* non-empty, the target id being the created one that was attached to;
\* when a call of openTargetSession fails or an id is missing the render
\* has failed and holds neither id.
C36_SessionOpenedInOrder ==
    /\ \A i \in 1..Len(sattached) :
           sattached[i] # "" /\ sattached[i] \in stargets
    /\ spc = "attaching" => (screated # "" /\ screated \in stargets)
    /\ (ssessionID # "" \/ stargetID # "") =>
           /\ ssessionID # "" /\ stargetID # ""
           /\ stargetID = screated
           /\ sattached # <<>>
           /\ sattached[Len(sattached)] = stargetID
    /\ serr \in SessionErrors =>
           /\ spc = "failed"
           /\ ssessionID = "" /\ stargetID = ""
    /\ serr = "cdp target id missing" => screated = ""

\* The second render of a connection opened its session: both ids are
\* held and each render's attach was sent with its own created target.
C36_Witness ==
    /\ spc = "rendering"
    /\ ssessionID = SessionName(2) /\ stargetID = TargetName(2)
    /\ sattached = <<TargetName(1), TargetName(2)>>

\* The path of a URL: the pieces after the authority, up to the query or
\* the fragment.
RECURSIVE UpTo(_, _)
UpTo(pieces, stops) ==
    IF pieces = <<>> \/ pieces[1] \in stops THEN <<>>
    ELSE <<pieces[1]>> \o UpTo(SubSeq(pieces, 2, Len(pieces)), stops)
PathOf(wsURL) == UpTo(SubSeq(wsURL, 3, Len(wsURL)), {"?", "#"})
PathHasPageMarker(wsURL) == Contains(PathOf(wsURL), <<PageMarker>>)

\* C37: a render treats its URL as a page endpoint, creating no target and
\* no session, exactly when the URL's path contains /devtools/page/; the
\* text in the query or the fragment alone does not make it one.
C37_PageEndpointByPath ==
    /\ spc \in {"creating", "attaching"} => ~PathHasPageMarker(swsURL)
    /\ (spc = "rendering" /\ screated = "") => PathHasPageMarker(swsURL)

(***************************************************************************)
(* Claims about the renderer's result, checked under SpecHTTP.             *)
(***************************************************************************)
\* C17: a success never carries an empty PDF: whenever the handler answers
\* 200, the renderer's bytes, and so the response body, are non-empty.
C17_SuccessBodyNonEmpty ==
    (Served /\ response.status = 200) =>
        /\ rendered.called
        /\ rendered.answer.pdf # ""
        /\ response.body # ""

(***************************************************************************)
(* Claims about a Call made after an abandoned one, checked under Spec.    *)
(***************************************************************************)
\* The last thing that happened is a Call returning because its context
\* was done: at the top of read, or on the read that timed out.
AbandonedReturn ==
    /\ lastEvent.type = "return"
    /\ lastEvent.ret.kind \in {"context", "timeout"}

\* C18: a Call abandoned on cancellation or deadline expiry leaves the
\* connection usable: the later Call is written under an id of its own,
\* returns on a response only when it carries that id, the late response
\* of the abandoned Call being discarded, and can read its response, the
\* reader standing at a frame boundary when the abandoned Call returns.
C18_LaterCallUnaffected ==
    /\ \A p \in Callers : InFlight(p) => callId[p] \notin returned
    /\ (lastEvent.type = "return" /\ lastEvent.msg # <<>>) =>
           lastEvent.msgId = lastEvent.id
    /\ AbandonedReturn => AtFrameBoundary

InitFrameSpec ==
    /\ IdleCDP /\ IdleOptions /\ IdleHTTP /\ IdleResolver /\ IdleHealth
    /\ IdleSession /\ IdleCancel /\ InitFrame
    /\ IdleRead
    /\ IdleDial
    /\ IdlePrint
    /\ IdlePipe
    /\ IdleStream
NextFrame ==
    \/ WriteTextMessage
    \/ WriteControlFrame
SpecFrame == InitFrameSpec /\ [][NextFrame]_vars

InitReadSpec ==
    /\ IdleCDP /\ IdleOptions /\ IdleHTTP /\ IdleResolver /\ IdleHealth
    /\ IdleSession /\ IdleCancel /\ IdleFrame
    /\ InitRead
    /\ IdleDial
    /\ IdlePrint
    /\ IdlePipe
    /\ IdleStream
NextRead ==
    \/ ReadMessage
    \/ ReadFrame
SpecRead == InitReadSpec /\ [][NextRead]_vars

InitDialSpec ==
    /\ IdleCDP /\ IdleOptions /\ IdleHTTP /\ IdleResolver /\ IdleHealth
    /\ IdleSession /\ IdleCancel /\ IdleFrame /\ IdleRead
    /\ InitDial
    /\ IdlePrint
    /\ IdlePipe
    /\ IdleStream
NextDial == DialWebSocket
SpecDial == InitDialSpec /\ [][NextDial]_vars

InitPrintSpec ==
    /\ IdleCDP /\ IdleOptions /\ IdleHTTP /\ IdleResolver /\ IdleHealth
    /\ IdleSession /\ IdleCancel /\ IdleFrame /\ IdleRead /\ IdleDial
    /\ InitPrint
    /\ IdlePipe
    /\ IdleStream
NextPrint == PrintToPdf
SpecPrint == InitPrintSpec /\ [][NextPrint]_vars

InitPipeSpec ==
    /\ IdleCDP /\ IdleOptions /\ IdleHTTP /\ IdleResolver /\ IdleHealth
    /\ IdleSession /\ IdleCancel /\ IdleFrame /\ IdleRead /\ IdleDial
    /\ IdlePrint
    /\ InitPipe
    /\ IdleStream
NextPipe ==
    \/ RenderBegin
    \/ Navigate
    \/ GetFrameTree
    \/ SetDocumentContent
    \/ PollBody
    \/ PollSelect
    \/ Settle
    \/ PrintCall
    \/ Cleanup
    \/ PipeCtxDone
SpecPipe == InitPipeSpec /\ [][NextPipe]_vars

InitStreamSpec ==
    /\ IdleCDP /\ IdleOptions /\ IdleHTTP /\ IdleResolver /\ IdleHealth
    /\ IdleSession /\ IdleCancel /\ IdleFrame /\ IdleRead /\ IdleDial
    /\ IdlePrint /\ IdlePipe
    /\ InitStream
NextStream ==
    \/ ServerSend
    \/ BytesArrive
    \/ StreamRead
    \/ StreamFrame
    \/ StreamTimeout
SpecStream == InitStreamSpec /\ [][NextStream]_vars

(***************************************************************************)
(* Claims about cancellation, checked under SpecCancel.                    *)
(***************************************************************************)
KSuspended == kpc \in {"writing", "reading", "select"}

\* C19: when the context is cancelled or its deadline has passed while a
\* Call is blocked writing or waiting for a response, or waitForBody is
\* between two polls, the operation eventually returns, whether or not the
\* context carries a deadline.
C19_CancelledOperationReturns == (KDone /\ KSuspended) ~> (kpc = "idle")

(***************************************************************************)
(* Claims about written frames, checked under SpecFrame.                   *)
(***************************************************************************)
\* How a receiver reads a frame (RFC 6455 section 5.2).
FrameFin(f) == f[1] \div 128
FrameRsv(f) == (f[1] \div 16) % 8
FrameOpcode(f) == f[1] % 16
FrameMask(f) == f[2] \div 128
FrameLen7(f) == f[2] % 128
FrameLenBytes(f) ==
    IF FrameLen7(f) <= 125 THEN 0 ELSE IF FrameLen7(f) = 126 THEN 2 ELSE 8
RECURSIVE BigEndian(_)
BigEndian(bytes) ==
    IF bytes = <<>> THEN 0
    ELSE 256 * BigEndian(SubSeq(bytes, 1, Len(bytes) - 1)) + bytes[Len(bytes)]
FrameLength(f) ==
    IF FrameLenBytes(f) = 0 THEN FrameLen7(f)
    ELSE BigEndian(SubSeq(f, 3, 2 + FrameLenBytes(f)))
FrameKey(f) == SubSeq(f, 3 + FrameLenBytes(f), 6 + FrameLenBytes(f))
FrameBody(f) == SubSeq(f, 7 + FrameLenBytes(f), Len(f))
Unmasked(f) ==
    LET body == FrameBody(f)
        key == FrameKey(f)
    IN  [i \in 1..Len(body) |-> BitXor(body[i], key[((i - 1) % 4) + 1])]
LengthForm(n) == IF n <= 125 THEN 0 ELSE IF n <= 65535 THEN 2 ELSE 8

\* C20: the frame written by writeTextMessage is one frame with FIN = 1,
\* opcode text and mask = 1; its length field has the 7-bit, 16-bit or
\* 64-bit form that the payload's size selects and encodes the payload's
\* length; and XOR-ing the frame's payload bytes with the frame's 4-byte
\* key, rotated modulo 4, gives back the original payload.
C20_TextFrameRoundTrip ==
    fop = "text" =>
        /\ ferr = ""
        /\ FrameFin(fframe) = 1
        /\ FrameRsv(fframe) = 0
        /\ FrameOpcode(fframe) = 1
        /\ FrameMask(fframe) = 1
        /\ FrameLenBytes(fframe) = LengthForm(Len(fpayload))
        /\ FrameLength(fframe) = Len(fpayload)
        /\ FrameKey(fframe) = fkey
        /\ Len(FrameBody(fframe)) = Len(fpayload)
        /\ Unmasked(fframe) = fpayload

\* A payload longer than 65535 bytes, with bytes that the key changes, has
\* been written as a text frame with the 64-bit length form.
C20_Witness ==
    /\ fop = "text"
    /\ Len(fpayload) > 65535
    /\ FrameLen7(fframe) = 127
    /\ FrameBody(fframe) # fpayload
    /\ Unmasked(fframe) = fpayload

(***************************************************************************)
(* Claims about read messages, checked under SpecRead.                     *)
(***************************************************************************)
\* The last frame read was complete on the wire.
Complete == mlast.wire \in {"7", "16", "64"}
\* The last frame read was a complete unmasked frame with this opcode.
Received(opcode) == Complete /\ ~mlast.masked /\ mlast.opcode = opcode
\* The readMessage call returned on the last frame with this error and
\* without a message.
FailedWith(e) == mpc = "idle" /\ mret = [msg |-> <<>>, err |-> e]
\* The last frame left message and collecting as they were and the call
\* goes on reading.
AssemblyUndisturbed ==
    /\ mpc = "reading"
    /\ mmessage = mbefore.message
    /\ mcollecting = mbefore.collecting

C22_BadSequenceFails ==
    /\ (Received(0) /\ ~mbefore.collecting) =>
           FailedWith("websocket continuation without start frame")
    /\ (Received(1) /\ mbefore.collecting) =>
           FailedWith("websocket data frame while continuation pending")

\* A second text frame, itself final, arrived while fragments were pending.
C22_Witness ==
    /\ Received(1) /\ mlast.fin /\ mlast.payload # <<>>
    /\ mbefore.collecting /\ mbefore.message # <<>>
    /\ FailedWith("websocket data frame while continuation pending")

\* f is exactly one final, masked pong frame whose payload unmasks to p.
IsPongOf(f, p) ==
    /\ Len(f) = 6 + Len(p)
    /\ FrameFin(f) = 1
    /\ FrameOpcode(f) = 10
    /\ FrameMask(f) = 1
    /\ FrameLength(f) = Len(p)
    /\ Unmasked(f) = p
\* The pong could not be written: conn.Write failed.
PongWriteFailed == FailedWith("write")

C30_MessageIsConcatenation ==
    /\ (mpc = "idle" /\ mret.err = "") => mret.msg = mexpect
    /\ (mpc = "reading" /\ mlast.wire = "none") => mmessage = <<>>
    /\ (mpc = "reading" /\ Complete /\ mlast.opcode \in {0, 1}) =>
           mmessage = mexpect

\* A message of three fragments, the last one final, was returned.
C30_Witness ==
    /\ mpc = "idle" /\ mret.err = ""
    /\ mframes = 3
    /\ Received(0) /\ mlast.fin /\ mlast.payload = <<66, 67>>
    /\ Len(mret.msg) > Len(mbefore.message) + 1
    /\ Len(mbefore.message) > 0
    /\ mbefore.collecting

\* C31: a complete binary frame, and a complete frame with any reserved
\* opcode (0x3-0x7, 0xB-0xF), makes readMessage fail with a protocol error
\* and without a message, whether or not an assembly is pending, and
\* nothing is written in answer.
C31_BinaryAndReservedFail ==
    /\ Received(2) =>
           /\ FailedWith("unexpected binary websocket frame")
           /\ mwrote = <<>>
    /\ \A op \in ReservedOpcodes :
           Received(op) =>
               /\ FailedWith("unsupported websocket opcode")
               /\ mwrote = <<>>

\* A frame with the reserved opcode 0xB arrived between the fragments of
\* a message.
C31_Witness ==
    /\ Received(11)
    /\ mbefore.collecting /\ mbefore.message # <<>>
    /\ FailedWith("unsupported websocket opcode")

\* A binary frame arrived with no assembly pending.
C31_WitnessBinary ==
    /\ Received(2) /\ ~mbefore.collecting
    /\ FailedWith("unexpected binary websocket frame")

\* f is exactly one final, masked close frame whose payload unmasks to p.
IsCloseOf(f, p) ==
    /\ Len(f) = 6 + Len(p)
    /\ FrameFin(f) = 1
    /\ FrameOpcode(f) = 8
    /\ FrameMask(f) = 1
    /\ FrameLength(f) = Len(p)
    /\ Unmasked(f) = p
\* The payload of the close reply to the last frame.
ClosePayload == IF Len(mlast.payload) > 125 THEN <<>> ELSE mlast.payload

\* C32: on a complete close frame readMessage returns the end-of-stream
\* condition and no message, whatever was assembled so far and whether or
\* not the reply could be written; what it wrote is nothing (the write
\* failed) or exactly one close frame carrying the received payload, or an
\* empty payload when the received one is longer than 125 bytes.
C32_CloseEndsStream ==
    Received(opClose) =>
        /\ FailedWith("EOF")
        /\ mwrote = <<>> \/ IsCloseOf(mwrote, ClosePayload)

\* A close frame with a payload arrived between the fragments of a
\* message and its reply was written.
C32_Witness ==
    /\ Received(opClose) /\ mlast.payload = <<66, 67>>
    /\ mbefore.collecting /\ mbefore.message # <<>>
    /\ IsCloseOf(mwrote, <<66, 67>>)
    /\ FailedWith("EOF")

\* A close frame of 126 payload bytes was answered with an empty close.
C32_WitnessLong ==
    /\ Received(opClose) /\ Len(mlast.payload) = 126
    /\ IsCloseOf(mwrote, <<>>)
    /\ FailedWith("EOF")

\* The reply to a close frame could not be written.
C32_WitnessWriteFailed ==
    /\ Received(opClose) /\ mwrote = <<>>
    /\ FailedWith("EOF")

(***************************************************************************)
(* Claims about the handshake, checked under SpecDial.                     *)
(***************************************************************************)
Dialled == dret # NoDial
\* The accept value RFC 6455 prescribes for a key.
Rfc6455Accept(key) ==
    "base64(sha1(" \o key \o "258EAFA5-E914-47DA-95CA-C5AB0DC85B11" \o "))"
\* The response is the one the handshake requires for the key sent.
HandshakeMatches ==
    /\ din.status = 101
    /\ Contains(ToLower(din.connection),
                ToLower(<<"U", "P", "G", "R", "A", "D", "E">>))
    /\ Contains(ToLower(din.upgrade),
                ToLower(<<"W", "E", "B", "S", "O", "C", "K", "E", "T">>))
    /\ din.accept = Rfc6455Accept(din.key)
\* The dial came as far as reading the peer's response.
ResponseRead ==
    /\ din.scheme \in {"ws", "wss"}
    /\ \/ din.fail \in {"none", "cleardeadline"}
       \/ (din.fail = "tls" /\ din.scheme = "ws")
       \/ (din.fail = "setdeadline" /\ ~din.hasDeadline)

\* C24: dialWebSocket succeeds only on status 101, a Connection header
\* containing upgrade and an Upgrade header containing websocket in any
\* letter case, and the accept value computed from the key of this
\* handshake; on a mismatch and on any other failure once the TCP
\* connection is open the connection is closed and an error returned; on
\* success the connection is returned open.
C24_HandshakeChecked ==
    Dialled =>
        /\ dret.err = "" => (HandshakeMatches /\ dret.conn /\ dtcp = "open")
        /\ dret.err # "" => (~dret.conn /\ dtcp # "open")
        /\ (ResponseRead /\ ~HandshakeMatches) =>
               (dret.err # "" /\ dtcp = "closed")
        /\ dtcp = "none" =>
               (din.fail \in {"parse", "dial"} \/ din.scheme = "http")

\* A handshake over TLS with the second key succeeded on headers written
\* in other letter cases.
C24_Witness ==
    /\ Dialled /\ dret.err = "" /\ dtcp = "open"
    /\ din.scheme = "wss" /\ din.hasDeadline
    /\ din.key = "base64(key-2)"
    /\ Len(din.connection) > 7
    /\ din.upgrade = <<"W", "e", "b", "S", "o", "c", "k", "e", "t">>

(***************************************************************************)
(* Claims about paper sizes with units, checked under SpecOptions.         *)
(***************************************************************************)
\* C25: paper_width and paper_height given with the suffix mm (or px) are
\* converted to inches and parsed successfully: 210mm is 8.27 inches, and
\* the query is not rejected as invalid paper_width / invalid paper_height.
C25_UnitSuffixAccepted ==
    parsed.called =>
        \A key \in {"paper_width", "paper_height"} :
            FirstValue(query, key) = "210mm" =>
                /\ parsed.err # "invalid " \o key
                /\ parsed.err = "" => parsed.options[FieldOf(key)] = <<827>>

(***************************************************************************)
(* Claims about the type of Call's errors, checked under Spec.             *)
(***************************************************************************)
\* C26: the error Call returns for a CDP error has a type that no error
\* returned for a marshalling, write, read, parse or cancellation failure
\* can have.
C26_CdpErrorTypeDistinct ==
    (lastEvent.type = "return" /\ lastEvent.ret.kind \notin {"nil", "cdp"}) =>
        ErrorTypes(lastEvent.ret.kind) \cap ErrorTypes("cdp") = {}

(***************************************************************************)
(* Claims about Close, checked under SpecCancel.                           *)
(***************************************************************************)
KInFlight == kpc # "idle"

\* waitForBody polls at once, and returns nil only from a poll whose
\* DOM.querySelector call, made after DOM.getDocument gave a root, came
\* back with the body.
WaitForBodyPolls ==
    [][ /\ (kop # "waitForBody" /\ kop' = "waitForBody") =>
               (kpc' = "write" /\ kstep' = 1)
        /\ (kop = "waitForBody" /\ kpc' = "idle" /\ kret' = "nil") =>
               (kpc = "reading" /\ kstep = 2)
        /\ (kop = "waitForBody" /\ kpc' = "idle") => kret' # "none"
      ]_vars

\* C35: waitForBody polls immediately and returns success only after a
\* poll in which DOM.getDocument gave a root and DOM.querySelector gave
\* the body; it returns the error of a failing CDP call; and once the
\* context is cancelled or expired it eventually returns.
C35_WaitForBodyReturns ==
    /\ WaitForBodyPolls
    /\ (kop = "waitForBody" /\ KDone) ~> (kpc = "idle")

\* C33: a read that times out while the context is neither cancelled nor
\* expired goes back to the top of read's loop and nothing is returned; a
\* read that times out with the context done returns the timeout to the
\* caller; a read that fails otherwise returns that error to the caller,
\* whatever the context's state.
C33_TimeoutRetriedElseSurfaced ==
    [][ /\ (KReadTimeout /\ ~KDone) =>
               (kpc' = "read" /\ kop' = kop /\ kret' = kret)
        /\ (KReadTimeout /\ KDone) =>
               (kpc' = "idle" /\ kret' = "timeout")
        /\ KReadFails => (kpc' = "idle" /\ kret' = "read")
        /\ KReadClosed =>
               (kpc' = "idle" /\ kret' = "read on closed connection")
      ]_vars

\* A read timed out after the context was cancelled and the timeout was
\* returned.
C33_Witness ==
    /\ kpc = "idle" /\ kret = "timeout"
    /\ kcancelled /\ krdl = "poll"

\* C27: Close can be called at any time, also while a Call is in flight
\* and holds the call mutex; once it has been called, the in-flight
\* operation returns, and what it returns is an error: the read is neither
\* retried for ever nor left hanging.
C27_CloseEndsInFlightCall ==
    /\ [](~kclosed => ENABLED KClose)
    /\ (kclosed /\ KInFlight) ~> (kpc = "idle")
    /\ [][(kclosed /\ KInFlight /\ kpc' = "idle") =>
             kret' \notin {"nil", "none", "cdp"}]_vars

\* Close was called while a Call without a deadline waited for its
\* response, and the Call returned the read's error.
C27_Witness ==
    /\ kclosed
    /\ kpc = "idle"
    /\ kret = "read on closed connection"
    /\ ~kdeadline /\ ~kcancelled

(***************************************************************************)
(* Claims about the print parameters, checked under SpecPrint.             *)
(***************************************************************************)
PrintSent == pparams # NotBuilt

\* C28: printBackground is sent as true when the option is unset and with
\* the option's value when it is set; each other option is sent exactly
\* when it is set (page ranges: when not empty), with the supplied value,
\* and is left out otherwise.
C28_SentExactlyWhenSet ==
    PrintSent =>
        /\ "printBackground" \in DOMAIN psent
        /\ psent["printBackground"] =
               (IF poptions.PrintBackground = <<>> THEN TRUE
                ELSE poptions.PrintBackground[1])
        /\ \A f \in PointerFields \ {"PrintBackground"} :
               IF poptions[f] # <<>>
               THEN /\ ParamOf(f) \in DOMAIN psent
                    /\ psent[ParamOf(f)] = poptions[f][1]
               ELSE ParamOf(f) \notin DOMAIN psent
        /\ IF poptions.PageRanges # ""
           THEN /\ "pageRanges" \in DOMAIN psent
                /\ psent["pageRanges"] = poptions.PageRanges
           ELSE "pageRanges" \notin DOMAIN psent

(***************************************************************************)
(* Claims about the render pipeline, checked under SpecPipe.               *)
(***************************************************************************)
\* The place of a CDP method in the prescribed order.
StepRank(method) ==
    CASE method = "Page.navigate"           -> 1
      [] method = "Page.getFrameTree"       -> 2
      [] method = "Page.setDocumentContent" -> 3
      [] method = "DOM.getDocument"         -> 4
      [] method = "DOM.querySelector"       -> 4
      [] method = "Page.printToPDF"         -> 5
      [] method = "Target.closeTarget"      -> 6
WasSent(method) == \E i \in 1..Len(qsent) : qsent[i] = method
SentOnce(method) ==
    \A i, j \in 1..Len(qsent) :
        (qsent[i] = method /\ qsent[j] = method) => i = j

IsPrefix(a, b) == Len(a) <= Len(b) /\ SubSeq(b, 1, Len(a)) = a

\* C38: a retried read loses no bytes: whatever the moments at which the
\* read deadline passes, the messages read returns are, in order, the
\* complete messages the server sent, and the well-formed frames of the
\* server are never taken for a protocol error.
C38_RetriedReadLosesNothing ==
    /\ IsPrefix(bgot, bsent)
    /\ berr = ""

\* With no timeout part-way, every message sent is returned as sent.
C38_WholeFramesReadRight ==
    /\ bgot = bsent /\ Len(bsent) = MaxSends
    /\ bsent[2] = <<66, 67>>
    /\ berr = ""

====
